---- MODULE Spec2Model ----
(***************************************************************************)
(* Luckfox LF101-8001280-AMA MIPI-DSI panel driver (JD9365 controller).    *)
(*                                                                         *)
(* The model follows the richer driver revision: the lifecycle callbacks   *)
(* lf_panel_prepare / lf_panel_enable / lf_panel_disable /                 *)
(* lf_panel_unprepare of struct lf_panel and the register-initialisation   *)
(* interpreter lf_panel_set_init_cmds, together with lf_panel_probe,       *)
(* lf_panel_remove and lf_panel_get_modes, in the configuration the source *)
(* compiles (PANEL_DCS_IN_PREPARE 1, USE_POWER_REGULATOR 0,                *)
(* USE_ORIENTATION 0, READ_PANEL_ID 0).                                    *)
(*                                                                         *)
(* Every callback is one action.  What a callback does on its way (GPIO    *)
(* levels driven, msleep() calls, command-channel transactions, conflict   *)
(* messages) is recorded, in program order, in the event list last.ev.     *)
(* The DSI host is an external collaborator: which transaction of a call   *)
(* fails, and with which errno, is an input of the call.                   *)
(***************************************************************************)
EXTENDS Integers, Sequences, FiniteSets, TLC

(***************************************************************************)
(* Program constants                                                       *)
(***************************************************************************)
PANEL_DCS_IN_PREPARE == 1
JD9365_CMD_PAGE == 224
JD9365_PAGE_USER == 0
JD9365_CMD_DSI_INIT0 == 128
JD9365_DSI_1_LANE == 0
JD9365_DSI_2_LANE == 1
JD9365_DSI_3_LANE == 2
JD9365_DSI_4_LANE == 3
REGFLAG_DELAY == 255
MIPI_DCS_SET_ADDRESS_MODE == 54
MIPI_DCS_SET_PIXEL_FORMAT == 58
MIPI_DCS_ENTER_SLEEP_MODE == 16
MIPI_DCS_EXIT_SLEEP_MODE == 17
MIPI_DCS_SET_DISPLAY_OFF == 40
MIPI_DCS_SET_DISPLAY_ON == 41
GPIOD_OUT_LOW == 0
ENOENT == 2
EIO == 5
ENOMEM == 12
EINVAL == 22
ENOSYS == 38
ETIMEDOUT == 110
EPROBE_DEFER == 517

(***************************************************************************)
(* Bounds of the exploration                                               *)
(***************************************************************************)
\* longest generated Register Command Table
MaxTableLen == 2
\* largest descriptor lane count tried (the driver supports 1..4)
MaxLanes == 5

\* the transactions of a shipped table's replay that may fail
MaxFailAt == 12

(***************************************************************************)
(* Events of a call, in program order.                                     *)
(*   k = "gpio"  : gpiod_set_value(reset, a)                               *)
(*   k = "sleep" : msleep(a)                                               *)
(*   k = "write" : mipi_dsi_dcs_write(dsi, a, &b, 1) returned r            *)
(*   k = "dcs"   : mipi_dsi_dcs_<command a>(dsi) returned r                *)
(*   k = "warn"  : the "has been used and will be overwritten" message     *)
(*                 for command a                                           *)
(* and, in lf_panel_probe, lf_panel_remove and lf_panel_get_modes,         *)
(*   k = "kzalloc"      : devm_kzalloc returned memory (r = 0) or NULL     *)
(*   k = "match"        : of_device_get_match_data returned a descriptor   *)
(*                        (a = 1) or NULL (a = 0)                          *)
(*   k = "gpiod_get"    : devm_gpiod_get(dev, "reset", a) returned r       *)
(*   k = "panel_add"    : drm_panel_add                                    *)
(*   k = "attach"       : mipi_dsi_attach with dsi->lanes = a returned r   *)
(*   k = "detach"       : mipi_dsi_detach                                  *)
(*   k = "panel_remove" : drm_panel_remove                                 *)
(*   k = "dup"          : drm_mode_duplicate returned a copy (a = 1) or    *)
(*                        NULL (a = 0)                                     *)
(*   k = "err"          : the "failed to add mode" message                 *)
(*   k = "add"          : drm_mode_probed_add of the copy (a = 1) or of    *)
(*                        whatever the null pointer stands for (a = 0)     *)
(*   k = "oops"         : the kernel stopped the call at a null pointer    *)
(* i is the 1-based index of the table entry being processed, 0 outside    *)
(* the table loop.                                                         *)
(***************************************************************************)
Ev(k, i, a, b, r) == [k |-> k, i |-> i, a |-> a, b |-> b, r |-> r]

IsTx(e) == e.k \in {"write", "dcs"}

CountTx(ev) == Cardinality({j \in 1..Len(ev) : IsTx(ev[j])})

(***************************************************************************)
(* The command channel.  A call is given a schedule: its failAt-th         *)
(* transaction returns the negative errno err (failAt = 0: none fails).    *)
(* A successful transaction is reported as 0.                              *)
(***************************************************************************)
Errnos == {-EIO, -ETIMEDOUT}

Schedules(maxTx) ==
  {[failAt |-> 0, err |-> 0]} \cup
  {[failAt |-> n, err |-> e] : n \in 1..maxTx, e \in Errnos}

BusResult(bus, n) == IF n = bus.failAt THEN bus.err ELSE 0

(***************************************************************************)
(* struct LCM_init_cmd {cmd, data_bytes, data[MAX_CMD_DATA_LEN = 1]} and   *)
(* struct lf_panel_data (the fields the callbacks read).                   *)
(***************************************************************************)
Cmd(c, n, d) == [cmd |-> c, data_bytes |-> n, data |-> d]

\* entries the generated tables are built from: page selects, writes to the
\* three descriptor-controlled registers, an entry without payload, a delay
Entries ==
  { Cmd(JD9365_CMD_PAGE, 1, JD9365_PAGE_USER),
    Cmd(JD9365_CMD_PAGE, 1, 1),
    Cmd(MIPI_DCS_SET_ADDRESS_MODE, 1, 8),
    Cmd(MIPI_DCS_SET_PIXEL_FORMAT, 1, 85),
    Cmd(JD9365_CMD_DSI_INIT0, 1, JD9365_DSI_4_LANE),
    Cmd(225, 0, 0),
    Cmd(REGFLAG_DELAY, 10, 0) }

RECURSIVE TablesOfLen(_)
TablesOfLen(n) ==
  IF n = 0 THEN {<<>>}
  ELSE {Append(t, c) : t \in TablesOfLen(n - 1), c \in Entries}

GeneratedTables == UNION {TablesOfLen(n) : n \in 0..MaxTableLen}

\* longer tables: a page select away from and back to the user page,
\* delays and an empty entry between a page select and a register write,
\* and an address-mode register written three times with two values
LongTables ==
  { << Cmd(JD9365_CMD_PAGE, 1, 1), Cmd(MIPI_DCS_SET_ADDRESS_MODE, 1, 8),
       Cmd(JD9365_CMD_PAGE, 1, JD9365_PAGE_USER), Cmd(MIPI_DCS_SET_ADDRESS_MODE, 1, 8) >>,
    << Cmd(REGFLAG_DELAY, 10, 0), Cmd(JD9365_CMD_PAGE, 1, JD9365_PAGE_USER),
       Cmd(225, 0, 0), Cmd(REGFLAG_DELAY, 5, 0), Cmd(MIPI_DCS_SET_ADDRESS_MODE, 1, 8),
       Cmd(REGFLAG_DELAY, 0, 0) >>,
    << Cmd(MIPI_DCS_SET_ADDRESS_MODE, 1, 8), Cmd(MIPI_DCS_SET_ADDRESS_MODE, 1, 0),
       Cmd(MIPI_DCS_SET_ADDRESS_MODE, 1, 8) >> }

\* the end-to-end scenario: page, address mode and pixel format repeated
\* with the descriptor's own values, then three further writes
ScenarioTail == { Cmd(225, 1, 147), Cmd(226, 1, 101), Cmd(227, 1, 248) }

ScenarioTables ==
  { << Cmd(JD9365_CMD_PAGE, 1, JD9365_PAGE_USER),
       Cmd(MIPI_DCS_SET_ADDRESS_MODE, 1, 0),
       Cmd(MIPI_DCS_SET_PIXEL_FORMAT, 1, 119),
       x, y, z >> : x \in ScenarioTail, y \in ScenarioTail, z \in ScenarioTail }

PanelData(l, m, c, t) ==
  [lanes |-> l, madctl_val |-> m, colmod_val |-> c,
   init_cmds |-> t, init_cmds_count |-> Len(t)]

\* (lanes, MADCTL, COLMOD) of the descriptors the generated tables go with:
\* the shipped 2-lane setting, which every register entry of Entries differs
\* from, and a 4-lane setting that the same entries agree with
Settings == { <<2, 0, 119>>, <<4, 8, 85>> }

\* every lane count, supported or not, with the tables of at most one entry
Descriptors ==
  { PanelData(s[1], s[2], s[3], t) : s \in Settings, t \in GeneratedTables \cup LongTables }
  \cup { PanelData(l, 0, 119, t) : l \in 0..MaxLanes, t \in TablesOfLen(0) \cup TablesOfLen(1) }
  \cup { PanelData(4, 0, 119, t) : t \in ScenarioTables }

(***************************************************************************)
(* The shipped tables and descriptors, entry for entry (an entry {c,n,{}}  *)
(* has data[0] == 0).                                                      *)
(***************************************************************************)
LF101_8001280_AMA_4LANE_init_cmds ==
  << Cmd(REGFLAG_DELAY, 10, 0), Cmd(224, 1, 0), Cmd(225, 1, 147), Cmd(226, 1, 101),
     Cmd(227, 1, 248), Cmd(128, 1, 3), Cmd(224, 1, 1), Cmd(0, 1, 0),
     Cmd(1, 1, 59), Cmd(12, 1, 116), Cmd(23, 1, 0), Cmd(24, 1, 175),
     Cmd(25, 1, 0), Cmd(26, 1, 0), Cmd(27, 1, 175), Cmd(28, 1, 0),
     Cmd(53, 1, 38), Cmd(55, 1, 9), Cmd(56, 1, 4), Cmd(57, 1, 0),
     Cmd(58, 1, 1), Cmd(60, 1, 120), Cmd(61, 1, 255), Cmd(62, 1, 255),
     Cmd(63, 1, 127), Cmd(64, 1, 6), Cmd(65, 1, 160), Cmd(66, 1, 129),
     Cmd(67, 1, 20), Cmd(68, 1, 35), Cmd(69, 1, 40), Cmd(85, 1, 2),
     Cmd(87, 1, 105), Cmd(89, 1, 10), Cmd(90, 1, 42), Cmd(91, 1, 23),
     Cmd(93, 1, 127), Cmd(94, 1, 107), Cmd(95, 1, 92), Cmd(96, 1, 79),
     Cmd(97, 1, 77), Cmd(98, 1, 63), Cmd(99, 1, 66), Cmd(100, 1, 43),
     Cmd(101, 1, 68), Cmd(102, 1, 67), Cmd(103, 1, 67), Cmd(104, 1, 99),
     Cmd(105, 1, 82), Cmd(106, 1, 90), Cmd(107, 1, 79), Cmd(108, 1, 78),
     Cmd(109, 1, 32), Cmd(110, 1, 15), Cmd(111, 1, 0), Cmd(112, 1, 127),
     Cmd(113, 1, 107), Cmd(114, 1, 92), Cmd(115, 1, 79), Cmd(116, 1, 77),
     Cmd(117, 1, 63), Cmd(118, 1, 66), Cmd(119, 1, 43), Cmd(120, 1, 68),
     Cmd(121, 1, 67), Cmd(122, 1, 67), Cmd(123, 1, 99), Cmd(124, 1, 82),
     Cmd(125, 1, 90), Cmd(126, 1, 79), Cmd(127, 1, 78), Cmd(128, 1, 32),
     Cmd(129, 1, 15), Cmd(130, 1, 0), Cmd(224, 1, 2), Cmd(0, 1, 2),
     Cmd(1, 1, 2), Cmd(2, 1, 0), Cmd(3, 1, 0), Cmd(4, 1, 30),
     Cmd(5, 1, 30), Cmd(6, 1, 31), Cmd(7, 1, 31), Cmd(8, 1, 31),
     Cmd(9, 1, 23), Cmd(10, 1, 23), Cmd(11, 1, 55), Cmd(12, 1, 55),
     Cmd(13, 1, 71), Cmd(14, 1, 71), Cmd(15, 1, 69), Cmd(16, 1, 69),
     Cmd(17, 1, 75), Cmd(18, 1, 75), Cmd(19, 1, 73), Cmd(20, 1, 73),
     Cmd(21, 1, 31), Cmd(22, 1, 1), Cmd(23, 1, 1), Cmd(24, 1, 0),
     Cmd(25, 1, 0), Cmd(26, 1, 30), Cmd(27, 1, 30), Cmd(28, 1, 31),
     Cmd(29, 1, 31), Cmd(30, 1, 31), Cmd(31, 1, 23), Cmd(32, 1, 23),
     Cmd(33, 1, 55), Cmd(34, 1, 55), Cmd(35, 1, 70), Cmd(36, 1, 70),
     Cmd(37, 1, 68), Cmd(38, 1, 68), Cmd(39, 1, 74), Cmd(40, 1, 74),
     Cmd(41, 1, 72), Cmd(42, 1, 72), Cmd(43, 1, 31), Cmd(44, 1, 1),
     Cmd(45, 1, 1), Cmd(46, 1, 0), Cmd(47, 1, 0), Cmd(48, 1, 31),
     Cmd(49, 1, 31), Cmd(50, 1, 30), Cmd(51, 1, 30), Cmd(52, 1, 31),
     Cmd(53, 1, 23), Cmd(54, 1, 23), Cmd(55, 1, 55), Cmd(56, 1, 55),
     Cmd(57, 1, 8), Cmd(58, 1, 8), Cmd(59, 1, 10), Cmd(60, 1, 10),
     Cmd(61, 1, 4), Cmd(62, 1, 4), Cmd(63, 1, 6), Cmd(64, 1, 6),
     Cmd(65, 1, 31), Cmd(66, 1, 2), Cmd(67, 1, 2), Cmd(68, 1, 0),
     Cmd(69, 1, 0), Cmd(70, 1, 31), Cmd(71, 1, 31), Cmd(72, 1, 30),
     Cmd(73, 1, 30), Cmd(74, 1, 31), Cmd(75, 1, 23), Cmd(76, 1, 23),
     Cmd(77, 1, 55), Cmd(78, 1, 55), Cmd(79, 1, 9), Cmd(80, 1, 9),
     Cmd(81, 1, 11), Cmd(82, 1, 11), Cmd(83, 1, 5), Cmd(84, 1, 5),
     Cmd(85, 1, 7), Cmd(86, 1, 7), Cmd(87, 1, 31), Cmd(88, 1, 64),
     Cmd(91, 1, 48), Cmd(92, 1, 22), Cmd(93, 1, 52), Cmd(94, 1, 5),
     Cmd(95, 1, 2), Cmd(99, 1, 0), Cmd(100, 1, 106), Cmd(103, 1, 115),
     Cmd(104, 1, 29), Cmd(105, 1, 8), Cmd(106, 1, 106), Cmd(107, 1, 8),
     Cmd(108, 1, 0), Cmd(109, 1, 0), Cmd(110, 1, 0), Cmd(111, 1, 136),
     Cmd(117, 1, 255), Cmd(119, 1, 221), Cmd(120, 1, 63), Cmd(121, 1, 21),
     Cmd(122, 1, 23), Cmd(125, 1, 20), Cmd(126, 1, 130), Cmd(224, 1, 4),
     Cmd(0, 1, 14), Cmd(2, 1, 179), Cmd(9, 1, 97), Cmd(14, 1, 72),
     Cmd(224, 1, 0), Cmd(230, 1, 2), Cmd(231, 1, 12), Cmd(17, 1, 0),
     Cmd(REGFLAG_DELAY, 120, 0) >>

LF101_8001280_AMA_4LANE_data ==
  PanelData(4, 0, 119, LF101_8001280_AMA_4LANE_init_cmds)

LF101_8001280_AMA_2LANE_init_cmds ==
  << Cmd(224, 1, 0), Cmd(225, 1, 147), Cmd(226, 1, 101), Cmd(227, 1, 248),
     Cmd(128, 1, 1), Cmd(224, 1, 1), Cmd(0, 1, 0), Cmd(1, 1, 56),
     Cmd(3, 1, 16), Cmd(4, 1, 56), Cmd(12, 1, 116), Cmd(23, 1, 0),
     Cmd(24, 1, 175), Cmd(25, 1, 0), Cmd(26, 1, 0), Cmd(27, 1, 175),
     Cmd(28, 1, 0), Cmd(53, 1, 38), Cmd(55, 1, 9), Cmd(56, 1, 4),
     Cmd(57, 1, 0), Cmd(58, 1, 1), Cmd(60, 1, 120), Cmd(61, 1, 255),
     Cmd(62, 1, 255), Cmd(63, 1, 127), Cmd(64, 1, 6), Cmd(65, 1, 160),
     Cmd(66, 1, 129), Cmd(67, 1, 30), Cmd(68, 1, 13), Cmd(69, 1, 40),
     Cmd(85, 1, 2), Cmd(87, 1, 105), Cmd(89, 1, 10), Cmd(90, 1, 42),
     Cmd(91, 1, 23), Cmd(93, 1, 127), Cmd(94, 1, 106), Cmd(95, 1, 91),
     Cmd(96, 1, 79), Cmd(97, 1, 74), Cmd(98, 1, 61), Cmd(99, 1, 65),
     Cmd(100, 1, 42), Cmd(101, 1, 68), Cmd(102, 1, 67), Cmd(103, 1, 68),
     Cmd(104, 1, 98), Cmd(105, 1, 82), Cmd(106, 1, 89), Cmd(107, 1, 76),
     Cmd(108, 1, 72), Cmd(109, 1, 58), Cmd(110, 1, 38), Cmd(111, 1, 0),
     Cmd(112, 1, 127), Cmd(113, 1, 106), Cmd(114, 1, 91), Cmd(115, 1, 79),
     Cmd(116, 1, 74), Cmd(117, 1, 61), Cmd(118, 1, 65), Cmd(119, 1, 42),
     Cmd(120, 1, 68), Cmd(121, 1, 67), Cmd(122, 1, 68), Cmd(123, 1, 98),
     Cmd(124, 1, 82), Cmd(125, 1, 89), Cmd(126, 1, 76), Cmd(127, 1, 72),
     Cmd(128, 1, 58), Cmd(129, 1, 38), Cmd(130, 1, 0), Cmd(224, 1, 2),
     Cmd(0, 1, 66), Cmd(1, 1, 66), Cmd(2, 1, 64), Cmd(3, 1, 64),
     Cmd(4, 1, 94), Cmd(5, 1, 94), Cmd(6, 1, 95), Cmd(7, 1, 95),
     Cmd(8, 1, 95), Cmd(9, 1, 87), Cmd(10, 1, 87), Cmd(11, 1, 119),
     Cmd(12, 1, 119), Cmd(13, 1, 71), Cmd(14, 1, 71), Cmd(15, 1, 69),
     Cmd(16, 1, 69), Cmd(17, 1, 75), Cmd(18, 1, 75), Cmd(19, 1, 73),
     Cmd(20, 1, 73), Cmd(21, 1, 95), Cmd(22, 1, 65), Cmd(23, 1, 65),
     Cmd(24, 1, 64), Cmd(25, 1, 64), Cmd(26, 1, 94), Cmd(27, 1, 94),
     Cmd(28, 1, 95), Cmd(29, 1, 95), Cmd(30, 1, 95), Cmd(31, 1, 87),
     Cmd(32, 1, 87), Cmd(33, 1, 119), Cmd(34, 1, 119), Cmd(35, 1, 70),
     Cmd(36, 1, 70), Cmd(37, 1, 68), Cmd(38, 1, 68), Cmd(39, 1, 74),
     Cmd(40, 1, 74), Cmd(41, 1, 72), Cmd(42, 1, 72), Cmd(43, 1, 95),
     Cmd(44, 1, 1), Cmd(45, 1, 1), Cmd(46, 1, 0), Cmd(47, 1, 0),
     Cmd(48, 1, 31), Cmd(49, 1, 31), Cmd(50, 1, 30), Cmd(51, 1, 30),
     Cmd(52, 1, 31), Cmd(53, 1, 23), Cmd(54, 1, 23), Cmd(55, 1, 55),
     Cmd(56, 1, 55), Cmd(57, 1, 8), Cmd(58, 1, 8), Cmd(59, 1, 10),
     Cmd(60, 1, 10), Cmd(61, 1, 4), Cmd(62, 1, 4), Cmd(63, 1, 6),
     Cmd(64, 1, 6), Cmd(65, 1, 31), Cmd(66, 1, 2), Cmd(67, 1, 2),
     Cmd(68, 1, 0), Cmd(69, 1, 0), Cmd(70, 1, 31), Cmd(71, 1, 31),
     Cmd(72, 1, 30), Cmd(73, 1, 30), Cmd(74, 1, 31), Cmd(75, 1, 23),
     Cmd(76, 1, 23), Cmd(77, 1, 55), Cmd(78, 1, 55), Cmd(79, 1, 9),
     Cmd(80, 1, 9), Cmd(81, 1, 11), Cmd(82, 1, 11), Cmd(83, 1, 5),
     Cmd(84, 1, 5), Cmd(85, 1, 7), Cmd(86, 1, 7), Cmd(87, 1, 31),
     Cmd(88, 1, 64), Cmd(91, 1, 48), Cmd(92, 1, 0), Cmd(93, 1, 52),
     Cmd(94, 1, 5), Cmd(95, 1, 2), Cmd(99, 1, 0), Cmd(100, 1, 106),
     Cmd(103, 1, 115), Cmd(104, 1, 7), Cmd(105, 1, 8), Cmd(106, 1, 106),
     Cmd(107, 1, 8), Cmd(108, 1, 0), Cmd(109, 1, 0), Cmd(110, 1, 0),
     Cmd(111, 1, 136), Cmd(117, 1, 255), Cmd(119, 1, 221), Cmd(120, 1, 44),
     Cmd(121, 1, 21), Cmd(122, 1, 23), Cmd(125, 1, 20), Cmd(126, 1, 130),
     Cmd(224, 1, 4), Cmd(0, 1, 14), Cmd(2, 1, 179), Cmd(9, 1, 97),
     Cmd(14, 1, 72), Cmd(55, 1, 88), Cmd(43, 1, 15), Cmd(224, 1, 0),
     Cmd(230, 1, 2), Cmd(231, 1, 12), Cmd(17, 1, 0), Cmd(REGFLAG_DELAY, 120, 0),
     Cmd(224, 1, 0), Cmd(41, 1, 0), Cmd(REGFLAG_DELAY, 5, 0) >>

LF101_8001280_AMA_2LANE_data ==
  PanelData(2, 0, 119, LF101_8001280_AMA_2LANE_init_cmds)

ShippedDescriptors == { LF101_8001280_AMA_4LANE_data, LF101_8001280_AMA_2LANE_data }

(***************************************************************************)
(* lf_panel_set_init_cmds: the Command Interpreter                         *)
(***************************************************************************)
\* variant: the default case falls through with the initial lane_command
LaneSupported_any(lanes) == TRUE

\* the switch on data->lanes: the default case returns -1
LaneSupported(lanes) == lanes \in {1, 2, 3, 4}

\* variant: the lane count itself is sent
LaneCommand_count(lanes) == lanes

\* lane_command as the switch leaves it (initialised to JD9365_DSI_2_LANE)
LaneCommand(lanes) ==
  CASE lanes = 1 -> JD9365_DSI_1_LANE
    [] lanes = 2 -> JD9365_DSI_2_LANE
    [] lanes = 3 -> JD9365_DSI_3_LANE
    [] lanes = 4 -> JD9365_DSI_4_LANE
    [] OTHER -> JD9365_DSI_2_LANE

\* variant: the page select is left to the table
Preamble_no_page(data) ==
  << <<MIPI_DCS_SET_ADDRESS_MODE, data.madctl_val>>,
     <<MIPI_DCS_SET_PIXEL_FORMAT, data.colmod_val>>,
     <<JD9365_CMD_DSI_INIT0, LaneCommand(data.lanes)>> >>

\* variant: the lane configuration is written first
Preamble_lane_first(data) ==
  << <<JD9365_CMD_DSI_INIT0, LaneCommand(data.lanes)>>,
     <<JD9365_CMD_PAGE, JD9365_PAGE_USER>>,
     <<MIPI_DCS_SET_ADDRESS_MODE, data.madctl_val>>,
     <<MIPI_DCS_SET_PIXEL_FORMAT, data.colmod_val>> >>

\* the four writes issued before the table loop, in order
Preamble(data) ==
  << <<JD9365_CMD_PAGE, JD9365_PAGE_USER>>,
     <<MIPI_DCS_SET_ADDRESS_MODE, data.madctl_val>>,
     <<MIPI_DCS_SET_PIXEL_FORMAT, data.colmod_val>>,
     <<JD9365_CMD_DSI_INIT0, LaneCommand(data.lanes)>> >>

\* variant: the result of a write is never taken as a failure
WriteFailed_never(ret) == FALSE

\* "if (ret < 0) return ret;" after a mipi_dsi_dcs_write
WriteFailed(ret) == ret < 0

\* the preamble writes from the k-th on; n transactions were issued so far
RECURSIVE PreambleFrom(_, _, _, _, _)
PreambleFrom(data, k, n, ev, bus) ==
  IF k > Len(Preamble(data)) THEN [ret |-> 0, ev |-> ev, n |-> n]
  ELSE LET w == Preamble(data)[k]
           ret == BusResult(bus, n + 1)
           ev1 == Append(ev, Ev("write", 0, w[1], w[2], ret))
       IN IF WriteFailed(ret) THEN [ret |-> ret, ev |-> ev1, n |-> n + 1]
          ELSE PreambleFrom(data, k + 1, n + 1, ev1, bus)

\* variant: the lane entry is compared with the lane count, not with the
\* lane command
CmdOverwritten_raw_lanes(data, init_cmd) ==
  CASE init_cmd.cmd = MIPI_DCS_SET_ADDRESS_MODE -> init_cmd.data # data.madctl_val
    [] init_cmd.cmd = MIPI_DCS_SET_PIXEL_FORMAT -> init_cmd.data # data.colmod_val
    [] init_cmd.cmd = JD9365_CMD_DSI_INIT0 -> init_cmd.data # data.lanes
    [] OTHER -> FALSE

\* variant: the address-mode case is missing from the switch
CmdOverwritten_no_madctl(data, init_cmd) ==
  CASE init_cmd.cmd = MIPI_DCS_SET_PIXEL_FORMAT -> init_cmd.data # data.colmod_val
    [] init_cmd.cmd = JD9365_CMD_DSI_INIT0 -> init_cmd.data # LaneCommand(data.lanes)
    [] OTHER -> FALSE

\* the switch inside "if (is_user_set)": does the entry set is_cmd_overwritten
CmdOverwritten(data, init_cmd) ==
  CASE init_cmd.cmd = MIPI_DCS_SET_ADDRESS_MODE -> init_cmd.data # data.madctl_val
    [] init_cmd.cmd = MIPI_DCS_SET_PIXEL_FORMAT -> init_cmd.data # data.colmod_val
    [] init_cmd.cmd = JD9365_CMD_DSI_INIT0 -> init_cmd.data # LaneCommand(data.lanes)
    [] OTHER -> FALSE

\* variant: is_user_set is never updated
NextUserSet_never(init_cmd, is_user_set) == is_user_set

\* is_user_set after the entry has been written
NextUserSet(init_cmd, is_user_set) ==
  IF init_cmd.cmd = JD9365_CMD_PAGE THEN init_cmd.data = JD9365_PAGE_USER
  ELSE is_user_set

\* variant: the delay is taken from the payload byte
DelayEvents_payload(init_cmd, i) == << Ev("sleep", i, init_cmd.data, 0, 0) >>

\* msleep(init_cmd->data_bytes) of a REGFLAG_DELAY entry
DelayEvents(init_cmd, i) == << Ev("sleep", i, init_cmd.data_bytes, 0, 0) >>

\* variant: an entry without payload is written like any other
EmptyEntry_written(init_cmd) == FALSE

\* "if (init_cmd->data_bytes == 0) continue;"
EmptyEntry(init_cmd) == init_cmd.data_bytes = 0

\* one iteration of the for loop, entry i; st holds the locals: the events
\* so far, the transactions so far (n), is_user_set, and whether the
\* function has returned (done) with ret
LoopStep(data, i, st, bus) ==
  LET init_cmd == data.init_cmds[i] IN
    IF init_cmd.cmd = REGFLAG_DELAY
    THEN [st EXCEPT !.ev = st.ev \o DelayEvents(init_cmd, i)]
    ELSE IF EmptyEntry(init_cmd)
    THEN st
    ELSE LET ev1 == IF st.is_user_set /\ CmdOverwritten(data, init_cmd)
                    THEN Append(st.ev, Ev("warn", i, init_cmd.cmd, init_cmd.data, 0))
                    ELSE st.ev
             ret == BusResult(bus, st.n + 1)
             ev2 == Append(ev1, Ev("write", i, init_cmd.cmd, init_cmd.data, ret))
         IN IF WriteFailed(ret)
            THEN [st EXCEPT !.ret = ret, !.ev = ev2, !.n = st.n + 1, !.done = TRUE]
            ELSE [st EXCEPT !.ev = ev2, !.n = st.n + 1,
                            !.is_user_set = NextUserSet(init_cmd, st.is_user_set)]

\* the iterations lo..hi in order, none after the function has returned;
\* the span is walked in halves, which keeps the evaluation of the shipped
\* tables (some 200 entries) shallow
RECURSIVE TableSpan(_, _, _, _, _)
TableSpan(data, lo, hi, st, bus) ==
  IF st.done \/ lo > hi THEN st
  ELSE IF lo = hi THEN LoopStep(data, lo, st, bus)
  ELSE LET mid == (lo + hi) \div 2
       IN TableSpan(data, mid + 1, hi, TableSpan(data, lo, mid, st, bus), bus)

\* the for loop from entry i on
TableFrom(data, i, is_user_set, n, ev, bus) ==
  LET st == TableSpan(data, i, data.init_cmds_count,
                      [ret |-> 0, ev |-> ev, n |-> n,
                       is_user_set |-> is_user_set, done |-> FALSE], bus)
  IN [ret |-> st.ret, ev |-> st.ev, n |-> st.n]

lf_panel_set_init_cmds(data, bus) ==
  IF ~LaneSupported(data.lanes) THEN [ret |-> -1, ev |-> <<>>, n |-> 0]
  ELSE LET pre == PreambleFrom(data, 1, 0, <<>>, bus)
       IN IF pre.ret < 0 THEN pre
          ELSE TableFrom(data, 1, TRUE, pre.n, pre.ev, bus)

(***************************************************************************)
(* The lifecycle callbacks as functions of the instance and the schedule.  *)
(* Each yields the return value, the events and the flag it may change.    *)
(***************************************************************************)
\* variant: the commands go out from enable() and disable()
DcsInPrepare_other == FALSE

\* "#if PANEL_DCS_IN_PREPARE": prepare() and unprepare() send the commands
DcsInPrepare == PANEL_DCS_IN_PREPARE = 1

\* variant: the last wait of the reset pulse is missing
ResetPulse_no_settle ==
  << Ev("gpio", 0, 1, 0, 0), Ev("sleep", 0, 5, 0, 0),
     Ev("gpio", 0, 0, 0, 0), Ev("sleep", 0, 10, 0, 0),
     Ev("gpio", 0, 1, 0, 0) >>

\* "Reset the panel": the gpiod_set_value / msleep pairs of lf_panel_prepare
ResetPulse ==
  << Ev("gpio", 0, 1, 0, 0), Ev("sleep", 0, 5, 0, 0),
     Ev("gpio", 0, 0, 0, 0), Ev("sleep", 0, 10, 0, 0),
     Ev("gpio", 0, 1, 0, 0), Ev("sleep", 0, 120, 0, 0) >>

\* variant: the guard is missing
PrepareGuard_missing(lfp_prepared) == FALSE

\* "already prepared" guard of lf_panel_prepare
PrepareGuard(lfp_prepared) == lfp_prepared

\* variant: the flag is set although the call fails
PreparedAfterPoweroff_set(lfp_prepared) == TRUE

\* lfp->prepared when lf_panel_prepare leaves through the poweroff label
PreparedAfterPoweroff(lfp_prepared) == lfp_prepared

lf_panel_prepare_run(lfp_prepared, data, bus) ==
  IF PrepareGuard(lfp_prepared) THEN [ret |-> 0, ev |-> <<>>, prepared |-> lfp_prepared]
  ELSE IF ~DcsInPrepare THEN [ret |-> 0, ev |-> ResetPulse, prepared |-> TRUE]
  ELSE
    LET ini == lf_panel_set_init_cmds(data, bus)
        ev1 == ResetPulse \o ini.ev
    IN IF ini.ret # 0
       THEN [ret |-> ini.ret, ev |-> ev1, prepared |-> PreparedAfterPoweroff(lfp_prepared)]
       ELSE
         LET r2 == BusResult(bus, ini.n + 1)
             ev2 == Append(ev1, Ev("dcs", 0, MIPI_DCS_EXIT_SLEEP_MODE, 0, r2))
         IN IF r2 # 0
            THEN [ret |-> r2, ev |-> ev2, prepared |-> PreparedAfterPoweroff(lfp_prepared)]
            ELSE
              LET r3 == BusResult(bus, ini.n + 2)
                  ev3 == Append(ev2, Ev("dcs", 0, MIPI_DCS_SET_DISPLAY_ON, 0, r3))
              IN IF r3 # 0
                 THEN [ret |-> r3, ev |-> ev3, prepared |-> PreparedAfterPoweroff(lfp_prepared)]
                 ELSE [ret |-> 0, ev |-> ev3, prepared |-> TRUE]

\* variant: a failed enter-sleep is only logged and the power-down goes on
UnprepareSleepFailed_goes_on(lfp_prepared, ret, ev) ==
  [ret |-> 0,
   ev |-> ev \o << Ev("gpio", 0, 1, 0, 0), Ev("sleep", 0, 120, 0, 0) >>,
   prepared |-> FALSE]

\* what follows a failed mipi_dsi_dcs_enter_sleep_mode in lf_panel_unprepare
UnprepareSleepFailed(lfp_prepared, ret, ev) ==
  [ret |-> ret, ev |-> ev, prepared |-> lfp_prepared]

\* variant: the guard is missing
UnprepareGuard_missing(lfp_prepared) == FALSE

\* "if (!lfp->prepared) return 0;" of lf_panel_unprepare
UnprepareGuard(lfp_prepared) == ~lfp_prepared

\* variant: the reset line is released instead of asserted
PowerDown_released == << Ev("gpio", 0, 0, 0, 0), Ev("sleep", 0, 120, 0, 0) >>

\* gpiod_set_value(lfp->reset, 1); msleep(120); at the end of lf_panel_unprepare
PowerDown == << Ev("gpio", 0, 1, 0, 0), Ev("sleep", 0, 120, 0, 0) >>

lf_panel_unprepare_run(lfp_prepared, bus) ==
  IF UnprepareGuard(lfp_prepared) THEN [ret |-> 0, ev |-> <<>>, prepared |-> lfp_prepared]
  ELSE IF ~DcsInPrepare THEN [ret |-> 0, ev |-> PowerDown, prepared |-> FALSE]
  ELSE
    LET r1 == BusResult(bus, 1)
        ev1 == << Ev("dcs", 0, MIPI_DCS_SET_DISPLAY_OFF, 0, r1) >>
    IN IF r1 # 0
       THEN [ret |-> r1, ev |-> ev1, prepared |-> lfp_prepared]
       ELSE
         LET r2 == BusResult(bus, 2)
             ev2 == Append(ev1, Ev("dcs", 0, MIPI_DCS_ENTER_SLEEP_MODE, 0, r2))
         IN IF r2 # 0
            THEN UnprepareSleepFailed(lfp_prepared, r2, ev2)
            ELSE [ret |-> 0, ev |-> ev2 \o PowerDown, prepared |-> FALSE]

\* variant: a second enable() is refused
EnableNoop_refused(lfp_enabled) == [ret |-> -1, ev |-> <<>>, enabled |-> lfp_enabled]

\* "if (lfp->enabled) return 0;" of lf_panel_enable
EnableNoop(lfp_enabled) == [ret |-> 0, ev |-> <<>>, enabled |-> lfp_enabled]

\* with PANEL_DCS_IN_PREPARE 0 enable() replays the table and turns the
\* display on; with 1 it only sets the flag
lf_panel_enable_run(lfp_enabled, data, bus) ==
  IF lfp_enabled THEN EnableNoop(lfp_enabled)
  ELSE IF DcsInPrepare THEN [ret |-> 0, ev |-> <<>>, enabled |-> TRUE]
  ELSE
    LET ini == lf_panel_set_init_cmds(data, bus)
    IN IF ini.ret # 0
       THEN [ret |-> ini.ret, ev |-> ini.ev, enabled |-> lfp_enabled]
       ELSE
         LET r2 == BusResult(bus, ini.n + 1)
             ev2 == Append(ini.ev, Ev("dcs", 0, MIPI_DCS_EXIT_SLEEP_MODE, 0, r2))
         IN IF r2 # 0
            THEN [ret |-> r2, ev |-> ev2, enabled |-> lfp_enabled]
            ELSE
              LET r3 == BusResult(bus, ini.n + 2)
                  ev3 == Append(ev2, Ev("dcs", 0, MIPI_DCS_SET_DISPLAY_ON, 0, r3))
              IN IF r3 # 0
                 THEN [ret |-> r3, ev |-> ev3, enabled |-> lfp_enabled]
                 ELSE [ret |-> 0, ev |-> ev3, enabled |-> TRUE]

\* variant: disable() returns without clearing the flag
lf_panel_disable_run_keeps_flag(lfp_enabled, bus) ==
  [ret |-> 0, ev |-> <<>>, enabled |-> lfp_enabled]

\* with PANEL_DCS_IN_PREPARE 0 disable() turns the display off and enters
\* sleep; with 1 it only clears the flag
lf_panel_disable_run(lfp_enabled, bus) ==
  IF ~lfp_enabled THEN [ret |-> 0, ev |-> <<>>, enabled |-> lfp_enabled]
  ELSE IF DcsInPrepare THEN [ret |-> 0, ev |-> <<>>, enabled |-> FALSE]
  ELSE
    LET r1 == BusResult(bus, 1)
        ev1 == << Ev("dcs", 0, MIPI_DCS_SET_DISPLAY_OFF, 0, r1) >>
    IN IF r1 # 0
       THEN [ret |-> r1, ev |-> ev1, enabled |-> lfp_enabled]
       ELSE
         LET r2 == BusResult(bus, 2)
             ev2 == Append(ev1, Ev("dcs", 0, MIPI_DCS_ENTER_SLEEP_MODE, 0, r2))
         IN IF r2 # 0
            THEN [ret |-> r2, ev |-> ev2, enabled |-> lfp_enabled]
            ELSE [ret |-> 0, ev |-> ev2, enabled |-> FALSE]

(***************************************************************************)
(* lf_panel_probe, lf_panel_remove and lf_panel_get_modes.                 *)
(***************************************************************************)
\* of_device_get_match_data found no descriptor; also lfp->data while no
\* struct lf_panel exists
NoData == [null |-> TRUE]

\* what the fallible calls of lf_panel_probe return: call 1 is
\* devm_kzalloc, call 2 devm_gpiod_get, call 3 mipi_dsi_attach; reached
\* is how many of them the probe gets to
ProbeFaults(reached) ==
  {[failAt |-> 0, err |-> 0]}
  \cup {[failAt |-> 1, err |-> -ENOMEM]}
  \cup {[failAt |-> 2, err |-> e] : e \in IF reached >= 2 THEN {-ENOENT, -EPROBE_DEFER} ELSE {}}
  \cup {[failAt |-> 3, err |-> e] : e \in IF reached >= 3 THEN {-ENOSYS, -EIO} ELSE {}}

\* variant: the lane count is validated along with the descriptor
DescriptorRejected_lanes(match) == match = NoData \/ match.lanes \notin {1, 2, 3, 4}

\* "if (!_lf_panel_data) return -EINVAL;"
DescriptorRejected(match) == match = NoData

\* variant: the panel stays on the list when the attach fails
AttachFailed_leaks(ret, ev) == [ret |-> ret, ev |-> ev]

\* "if (ret < 0) { ... drm_panel_remove(&lfp->base); return ret; }"
AttachFailed(ret, ev) == [ret |-> ret, ev |-> Append(ev, Ev("panel_remove", 0, 0, 0, 0))]

lf_panel_probe_run(match, fault) ==
  LET r1 == BusResult(fault, 1)
      ev1 == << Ev("kzalloc", 0, 0, 0, r1) >>
  IN IF r1 # 0 THEN [ret |-> -ENOMEM, ev |-> ev1]
     ELSE
       LET ev2 == Append(ev1, Ev("match", 0, IF match = NoData THEN 0 ELSE 1, 0, 0))
       IN IF DescriptorRejected(match) THEN [ret |-> -EINVAL, ev |-> ev2]
          ELSE
            LET r3 == BusResult(fault, 2)
                ev3 == Append(ev2, Ev("gpiod_get", 0, GPIOD_OUT_LOW, 0, r3))
            IN IF r3 # 0 THEN [ret |-> r3, ev |-> ev3]
               ELSE
                 LET r4 == BusResult(fault, 3)
                     ev4 == ev3 \o << Ev("panel_add", 0, 0, 0, 0),
                                      Ev("attach", 0, match.lanes, 0, r4) >>
                 IN IF r4 < 0 THEN AttachFailed(r4, ev4)
                    ELSE [ret |-> 0, ev |-> ev4]

\* the panel is on the framework's list after the events ev
RECURSIVE RegisteredAfter(_, _)
RegisteredAfter(ev, on) ==
  IF ev = <<>> THEN on
  ELSE RegisteredAfter(Tail(ev),
         IF Head(ev).k = "panel_add" THEN TRUE
         ELSE IF Head(ev).k = "panel_remove" THEN FALSE ELSE on)

\* the device is attached to its DSI host after the events ev
RECURSIVE AttachedAfter(_, _)
AttachedAfter(ev, on) ==
  IF ev = <<>> THEN on
  ELSE AttachedAfter(Tail(ev),
         IF Head(ev).k = "attach" THEN Head(ev).r >= 0
         ELSE IF Head(ev).k = "detach" THEN FALSE ELSE on)

\* mipi_dsi_detach, then drm_panel_remove (lfp->base.dev is set by
\* drm_panel_init)
lf_panel_remove_run ==
  [ret |-> 0, ev |-> << Ev("detach", 0, 0, 0, 0), Ev("panel_remove", 0, 0, 0, 0) >>]

\* what a build can do with drm_mode_set_name(NULL) and the statements
\* after it: the kernel stops the call at the null pointer, or the stores
\* land somewhere and the call goes on with a mode that is no copy
NullModeOutcomes == {"oops", "goes_on"}

\* lf_panel_get_modes: copy is whether drm_mode_duplicate returns a copy.
\* When it returns NULL the message is logged and the function goes on to
\* use the pointer.
lf_panel_get_modes_run(copy, outcome) ==
  IF copy
  THEN [ret |-> 1, returned |-> TRUE,
        ev |-> << Ev("dup", 0, 1, 0, 0), Ev("add", 0, 1, 0, 0) >>]
  ELSE IF outcome = "oops"
  THEN [ret |-> 0, returned |-> FALSE,
        ev |-> << Ev("dup", 0, 0, 0, 0), Ev("err", 0, 0, 0, 0), Ev("oops", 0, 0, 0, 0) >>]
  ELSE [ret |-> 1, returned |-> TRUE,
        ev |-> << Ev("dup", 0, 0, 0, 0), Ev("err", 0, 0, 0, 0), Ev("add", 0, 0, 0, 0) >>]

(***************************************************************************)
(* The simple driver revision (panel-luckfox-dsi-lf101.c): a table of      *)
(* two-byte buffers {register, value} written one after the other, no      *)
(* preamble, no delay entries, no page cursor; prepare() sleeps 10 ms      *)
(* before and 120 ms after the replay.                                     *)
(***************************************************************************)
\* struct LCM_init_cmd { u8 data[INIT_CMD_LEN]; }
Buf(reg, val) == [data |-> <<reg, val>>]

\* tables of the simple revision the comparison is run with
SimpleTables ==
  { <<>>,
    << Buf(JD9365_CMD_PAGE, 0) >>,
    << Buf(JD9365_CMD_PAGE, 4), Buf(14, 72), Buf(JD9365_CMD_PAGE, 0) >> }

\* the loop of the simple lf_panel_set_init_cmds:
\* mipi_dsi_dcs_write_buffer(dsi, cmd->data, INIT_CMD_LEN) per entry
RECURSIVE simple_TableFrom(_, _, _, _)
simple_TableFrom(init_cmds, i, ev, bus) ==
  IF i > Len(init_cmds) THEN [ret |-> 0, ev |-> ev, n |-> i - 1]
  ELSE LET ret == BusResult(bus, i)
           ev1 == Append(ev, Ev("write", i, init_cmds[i].data[1], init_cmds[i].data[2], ret))
       IN IF ret < 0 THEN [ret |-> ret, ev |-> ev1, n |-> i]
          ELSE simple_TableFrom(init_cmds, i + 1, ev1, bus)

simple_set_init_cmds(init_cmds, bus) == simple_TableFrom(init_cmds, 1, <<>>, bus)

\* "Reset the panel" of the simple lf_panel_prepare
simple_ResetPulse ==
  << Ev("gpio", 0, 1, 0, 0), Ev("sleep", 0, 5, 0, 0),
     Ev("gpio", 0, 0, 0, 0), Ev("sleep", 0, 10, 0, 0),
     Ev("gpio", 0, 1, 0, 0), Ev("sleep", 0, 120, 0, 0) >>

simple_prepare_run(lfp_prepared, init_cmds, bus) ==
  IF lfp_prepared THEN [ret |-> 0, ev |-> <<>>, prepared |-> lfp_prepared]
  ELSE
    LET ini == simple_set_init_cmds(init_cmds, bus)
        ev1 == Append(simple_ResetPulse, Ev("sleep", 0, 10, 0, 0)) \o ini.ev
    IN IF ini.ret # 0 THEN [ret |-> ini.ret, ev |-> ev1, prepared |-> lfp_prepared]
       ELSE
         LET r2 == BusResult(bus, ini.n + 1)
             ev2 == ev1 \o << Ev("sleep", 0, 120, 0, 0),
                              Ev("dcs", 0, MIPI_DCS_EXIT_SLEEP_MODE, 0, r2) >>
         IN IF r2 # 0 THEN [ret |-> r2, ev |-> ev2, prepared |-> lfp_prepared]
            ELSE
              LET r3 == BusResult(bus, ini.n + 2)
                  ev3 == Append(ev2, Ev("dcs", 0, MIPI_DCS_SET_DISPLAY_ON, 0, r3))
              IN IF r3 # 0 THEN [ret |-> r3, ev |-> ev3, prepared |-> lfp_prepared]
                 ELSE [ret |-> 0, ev |-> ev3, prepared |-> TRUE]

simple_unprepare_run(lfp_prepared, bus) ==
  IF ~lfp_prepared THEN [ret |-> 0, ev |-> <<>>, prepared |-> lfp_prepared]
  ELSE
    LET r1 == BusResult(bus, 1)
        ev1 == << Ev("dcs", 0, MIPI_DCS_SET_DISPLAY_OFF, 0, r1) >>
    IN IF r1 # 0 THEN [ret |-> r1, ev |-> ev1, prepared |-> lfp_prepared]
       ELSE
         LET r2 == BusResult(bus, 2)
             ev2 == Append(ev1, Ev("dcs", 0, MIPI_DCS_ENTER_SLEEP_MODE, 0, r2))
         IN IF r2 # 0 THEN [ret |-> r2, ev |-> ev2, prepared |-> lfp_prepared]
            ELSE [ret |-> 0,
                  ev |-> ev2 \o << Ev("gpio", 0, 1, 0, 0), Ev("sleep", 0, 120, 0, 0) >>,
                  prepared |-> FALSE]

\* PANEL_DCS_IN_PREPARE is 1 in this revision too: enable() and disable()
\* only assign the flag
simple_enable_run(lfp_enabled) ==
  IF lfp_enabled THEN [ret |-> 0, ev |-> <<>>, enabled |-> lfp_enabled]
  ELSE [ret |-> 0, ev |-> <<>>, enabled |-> TRUE]

simple_disable_run(lfp_enabled) ==
  IF ~lfp_enabled THEN [ret |-> 0, ev |-> <<>>, enabled |-> lfp_enabled]
  ELSE [ret |-> 0, ev |-> <<>>, enabled |-> FALSE]

(***************************************************************************)
(* State: the device and its struct lf_panel                               *)
(***************************************************************************)
VARIABLES
  prepared,   \* lfp->prepared
  enabled,    \* lfp->enabled
  reset,      \* level last driven on lfp->reset
  data,       \* lfp->data, the matched descriptor
  registered, \* the panel is on the framework's panel list
  attached,   \* the device is attached to its DSI host
  last,       \* the callback that ran last: its inputs, result and events
  simple,     \* an instance of the simple revision given the same calls
  trip        \* how far a prepare/enable/disable/unprepare/prepare round
              \* trip has got, and what its first prepare() did

vars == <<prepared, enabled, reset, data, registered, attached, last, simple, trip>>

\* simple and trip are used by SpecBoth only
Idle == [idle |-> TRUE]

harness == <<simple, trip>>

\* the level the reset line is left at by the gpiod_set_value calls of ev
ResetAfter(ev, level) ==
  LET set == {j \in 1..Len(ev) : ev[j].k = "gpio"}
  IN IF set = {} THEN level
     ELSE ev[CHOOSE j \in set : \A q \in set : q <= j].a

\* returned is FALSE for a call the kernel stopped; ret then has no meaning
Call(op, bus, res) ==
  [op |-> op, bus |-> bus, ret |-> res.ret, ev |-> res.ev, returned |-> TRUE,
   was_prepared |-> prepared, was_enabled |-> enabled, was_reset |-> reset]

NoBus == [failAt |-> 0, err |-> 0]

\* the device before its first probe: no struct lf_panel, the reset line
\* at its idle level
Init ==
  /\ prepared = FALSE
  /\ enabled = FALSE
  /\ reset = GPIOD_OUT_LOW
  /\ data = NoData
  /\ registered = FALSE
  /\ attached = FALSE
  /\ last = [op |-> "none", bus |-> NoBus, ret |-> 0, ev |-> <<>>, returned |-> TRUE,
             was_prepared |-> FALSE, was_enabled |-> FALSE, was_reset |-> GPIOD_OUT_LOW]
  /\ simple = Idle
  /\ trip = Idle

\* The driver core probes an unbound device.  devm_kzalloc zeroes the
\* flags; the reset line is requested GPIOD_OUT_LOW; a failed probe frees
\* the struct lf_panel again.
lf_panel_probe ==
  /\ ~registered
  /\ \E match \in Descriptors \cup {NoData} :
       \E fault \in ProbeFaults(IF match = NoData THEN 1 ELSE 3) :
       \E res \in {lf_panel_probe_run(match, fault)} :
           /\ prepared' = FALSE
           /\ enabled' = FALSE
           /\ reset' = IF \E j \in 1..Len(res.ev) :
                             res.ev[j].k = "gpiod_get" /\ res.ev[j].r = 0
                       THEN GPIOD_OUT_LOW ELSE reset
           /\ data' = IF res.ret = 0 THEN match ELSE NoData
           /\ registered' = RegisteredAfter(res.ev, registered)
           /\ attached' = AttachedAfter(res.ev, attached)
           /\ last' = Call("probe", fault, res)
  /\ UNCHANGED harness

\* The driver core unbinds the device; devm frees the struct lf_panel and
\* the GPIO, the line keeps its level.
lf_panel_remove ==
  /\ registered
  /\ \E res \in {lf_panel_remove_run} :
       /\ prepared' = FALSE
       /\ enabled' = FALSE
       /\ data' = NoData
       /\ registered' = RegisteredAfter(res.ev, registered)
       /\ attached' = AttachedAfter(res.ev, attached)
       /\ last' = Call("remove", NoBus, res)
       /\ UNCHANGED reset
  /\ UNCHANGED harness

\* The framework asks a registered panel for its modes, in any lifecycle
\* state.
lf_panel_get_modes ==
  /\ registered
  /\ \E copy \in BOOLEAN :
       \E outcome \in IF copy THEN {"none"} ELSE NullModeOutcomes :
       \E res \in {lf_panel_get_modes_run(copy, outcome)} :
           /\ last' = [Call("get_modes", NoBus, res) EXCEPT !.returned = res.returned]
           /\ UNCHANGED <<prepared, enabled, reset, data, registered, attached>>
  /\ UNCHANGED harness

\* A schedule can only fail a transaction the call gets to: the schedules
\* of a call range over the transactions it issues when none fails.
lf_panel_prepare ==
  /\ registered
  /\ \E bus \in Schedules(CountTx(lf_panel_prepare_run(prepared, data, NoBus).ev)) :
       \E res \in {lf_panel_prepare_run(prepared, data, bus)} :
         /\ prepared' = res.prepared
         /\ reset' = ResetAfter(res.ev, reset)
         /\ last' = Call("prepare", bus, res)
         /\ UNCHANGED <<enabled, data, registered, attached>>
  /\ UNCHANGED harness

lf_panel_unprepare ==
  /\ registered
  /\ \E bus \in Schedules(CountTx(lf_panel_unprepare_run(prepared, NoBus).ev)) :
       \E res \in {lf_panel_unprepare_run(prepared, bus)} :
         /\ prepared' = res.prepared
         /\ reset' = ResetAfter(res.ev, reset)
         /\ last' = Call("unprepare", bus, res)
         /\ UNCHANGED <<enabled, data, registered, attached>>
  /\ UNCHANGED harness

lf_panel_enable ==
  /\ registered
  /\ \E bus \in Schedules(CountTx(lf_panel_enable_run(enabled, data, NoBus).ev)) :
       \E res \in {lf_panel_enable_run(enabled, data, bus)} :
         /\ enabled' = res.enabled
         /\ reset' = ResetAfter(res.ev, reset)
         /\ last' = Call("enable", bus, res)
         /\ UNCHANGED <<prepared, data, registered, attached>>
  /\ UNCHANGED harness

\* variant: disable clears the wrong flag
lf_panel_disable_wrong_flag ==
  /\ registered
  /\ prepared' = FALSE
  /\ last' = Call("disable", NoBus, [ret |-> 0, ev |-> <<>>])
  /\ UNCHANGED <<enabled, reset, data, registered, attached>>
  /\ UNCHANGED harness

lf_panel_disable ==
  /\ registered
  /\ \E bus \in Schedules(CountTx(lf_panel_disable_run(enabled, NoBus).ev)) :
       \E res \in {lf_panel_disable_run(enabled, bus)} :
         /\ enabled' = res.enabled
         /\ reset' = ResetAfter(res.ev, reset)
         /\ last' = Call("disable", bus, res)
         /\ UNCHANGED <<prepared, data, registered, attached>>
  /\ UNCHANGED harness

\* probe and remove as the driver core calls them, the callbacks of a
\* registered panel in any order
Next ==
  \/ lf_panel_probe
  \/ lf_panel_remove
  \/ lf_panel_get_modes
  \/ lf_panel_prepare
  \/ lf_panel_unprepare
  \/ lf_panel_enable
  \/ lf_panel_disable

Spec == Init /\ [][Next]_vars

(***************************************************************************)
(* The same callbacks under a caller that keeps the state-machine order:   *)
(* enable() only on a prepared panel, unprepare() only on a disabled one.  *)
(***************************************************************************)
lf_panel_enable_ordered == prepared /\ lf_panel_enable

lf_panel_unprepare_ordered == ~enabled /\ lf_panel_unprepare

NextOrdered ==
  \/ lf_panel_probe
  \/ lf_panel_remove
  \/ lf_panel_get_modes
  \/ lf_panel_prepare
  \/ lf_panel_unprepare_ordered
  \/ lf_panel_enable_ordered
  \/ lf_panel_disable

SpecOrdered == Init /\ [][NextOrdered]_vars

(***************************************************************************)
(* Both revisions bound to the same device model and given the same calls, *)
(* every bus transaction succeeding: the richer one in the driver state,   *)
(* the simple one in the record simple.  trip follows the round trip       *)
(* prepare, enable, disable, unprepare, prepare.                           *)
(***************************************************************************)
RoundTrip == << "prepare", "enable", "disable", "unprepare", "prepare" >>

\* what a prepare() did, as the round trip remembers it
Did(res) == [ret |-> res.ret, ev |-> res.ev, prepared |-> res.prepared]

\* trip after the call op: the next call of a round trip under way, or the
\* prepare() that starts one with all flags clear, or neither
TripAfter(op, res, sres) ==
  IF trip.pc \in 1..4 /\ op = RoundTrip[trip.pc + 1]
  THEN [trip EXCEPT !.pc = trip.pc + 1]
  ELSE IF op = "prepare" /\ ~prepared /\ ~enabled /\ ~simple.prepared /\ ~simple.enabled
  THEN [pc |-> 1, first |-> Did(res), simple_first |-> Did(sres)]
  ELSE [pc |-> 0, first |-> trip.first, simple_first |-> trip.simple_first]

\* both drivers just bound: each probe has succeeded on its descriptor
InitBoth ==
  /\ prepared = FALSE
  /\ enabled = FALSE
  /\ reset = GPIOD_OUT_LOW
  /\ data \in Descriptors
  /\ registered = TRUE
  /\ attached = TRUE
  /\ last = [op |-> "probe", bus |-> NoBus, ret |-> 0,
             ev |-> lf_panel_probe_run(data, NoBus).ev, returned |-> TRUE,
             was_prepared |-> FALSE, was_enabled |-> FALSE, was_reset |-> GPIOD_OUT_LOW]
  /\ \E t \in SimpleTables :
       simple = [prepared |-> FALSE, enabled |-> FALSE, reset |-> GPIOD_OUT_LOW,
                 init_cmds |-> t, ret |-> 0, ev |-> <<>>]
  /\ trip = [pc |-> 0, first |-> Did([ret |-> 0, ev |-> <<>>, prepared |-> FALSE]),
             simple_first |-> Did([ret |-> 0, ev |-> <<>>, prepared |-> FALSE])]

Both_prepare ==
  /\ registered
  /\ \E res \in {lf_panel_prepare_run(prepared, data, NoBus)} :
     \E sres \in {simple_prepare_run(simple.prepared, simple.init_cmds, NoBus)} :
       /\ prepared' = res.prepared
       /\ reset' = ResetAfter(res.ev, reset)
       /\ last' = Call("prepare", NoBus, res)
       /\ simple' = [simple EXCEPT !.prepared = sres.prepared,
                                   !.reset = ResetAfter(sres.ev, simple.reset),
                                   !.ret = sres.ret, !.ev = sres.ev]
       /\ trip' = TripAfter("prepare", res, sres)
       /\ UNCHANGED <<enabled, data, registered, attached>>

Both_unprepare ==
  /\ registered
  /\ \E res \in {lf_panel_unprepare_run(prepared, NoBus)} :
     \E sres \in {simple_unprepare_run(simple.prepared, NoBus)} :
       /\ prepared' = res.prepared
       /\ reset' = ResetAfter(res.ev, reset)
       /\ last' = Call("unprepare", NoBus, res)
       /\ simple' = [simple EXCEPT !.prepared = sres.prepared,
                                   !.reset = ResetAfter(sres.ev, simple.reset),
                                   !.ret = sres.ret, !.ev = sres.ev]
       /\ trip' = TripAfter("unprepare", res, sres)
       /\ UNCHANGED <<enabled, data, registered, attached>>

Both_enable ==
  /\ registered
  /\ \E res \in {lf_panel_enable_run(enabled, data, NoBus)} :
     \E sres \in {simple_enable_run(simple.enabled)} :
       /\ enabled' = res.enabled
       /\ reset' = ResetAfter(res.ev, reset)
       /\ last' = Call("enable", NoBus, res)
       /\ simple' = [simple EXCEPT !.enabled = sres.enabled,
                                   !.reset = ResetAfter(sres.ev, simple.reset),
                                   !.ret = sres.ret, !.ev = sres.ev]
       /\ trip' = TripAfter("enable", res, sres)
       /\ UNCHANGED <<prepared, data, registered, attached>>

Both_disable ==
  /\ registered
  /\ \E res \in {lf_panel_disable_run(enabled, NoBus)} :
     \E sres \in {simple_disable_run(simple.enabled)} :
       /\ enabled' = res.enabled
       /\ reset' = ResetAfter(res.ev, reset)
       /\ last' = Call("disable", NoBus, res)
       /\ simple' = [simple EXCEPT !.enabled = sres.enabled,
                                   !.reset = ResetAfter(sres.ev, simple.reset),
                                   !.ret = sres.ret, !.ev = sres.ev]
       /\ trip' = TripAfter("disable", res, sres)
       /\ UNCHANGED <<prepared, data, registered, attached>>

NextBoth ==
  \/ Both_prepare
  \/ Both_unprepare
  \/ Both_enable
  \/ Both_disable

SpecBoth == InitBoth /\ [][NextBoth]_vars

(***************************************************************************)
(* A command-channel transaction that never returns.  The mipi_dsi_dcs_*   *)
(* calls are synchronous and the driver sets no timeout around them: the   *)
(* callback stays inside the hangAt-th transaction it starts, so nothing   *)
(* after that call is executed and the callback does not return.  The      *)
(* thread that called it is stuck; the framework makes no further call.    *)
(***************************************************************************)
\* the events of ev up to and including its h-th transaction
RECURSIVE UpToTx(_, _)
UpToTx(ev, h) ==
  IF ev = <<>> \/ h = 0 THEN <<>>
  ELSE <<Head(ev)>> \o UpToTx(Tail(ev), IF IsTx(Head(ev)) THEN h - 1 ELSE h)

\* variant: the bus layer gives up and the callback returns -ETIMEDOUT
HungCall_times_out(op, h, ev) ==
  [op |-> op, bus |-> [failAt |-> 0, err |-> 0, hangAt |-> h], ret |-> -ETIMEDOUT,
   ev |-> UpToTx(ev, h), returned |-> TRUE,
   was_prepared |-> prepared, was_enabled |-> enabled, was_reset |-> reset]

\* the callback op stuck in its h-th transaction; ev is what it would do if
\* every transaction returned 0.  ret has no meaning, the r of the pending
\* transaction neither.
HungCall(op, h, ev) ==
  [op |-> op, bus |-> [failAt |-> 0, err |-> 0, hangAt |-> h], ret |-> 0,
   ev |-> UpToTx(ev, h), returned |-> FALSE,
   was_prepared |-> prepared, was_enabled |-> enabled, was_reset |-> reset]

\* a call in which every transaction returns
ReturningCall(op, bus, res) ==
  [Call(op, bus, res) EXCEPT !.bus = [failAt |-> bus.failAt, err |-> bus.err, hangAt |-> 0]]

\* a bound panel, as InitBoth has it, without the simple revision
InitHang ==
  /\ prepared = FALSE
  /\ enabled = FALSE
  /\ reset = GPIOD_OUT_LOW
  /\ data \in Descriptors
  /\ registered = TRUE
  /\ attached = TRUE
  /\ last = [op |-> "probe", bus |-> [failAt |-> 0, err |-> 0, hangAt |-> 0], ret |-> 0,
             ev |-> lf_panel_probe_run(data, NoBus).ev, returned |-> TRUE,
             was_prepared |-> FALSE, was_enabled |-> FALSE, was_reset |-> GPIOD_OUT_LOW]
  /\ simple = Idle
  /\ trip = Idle

\* prepare() with every transaction returning, 0 or an error
Hang_prepare_returns ==
  /\ registered /\ last.returned
  /\ \E bus \in Schedules(CountTx(lf_panel_prepare_run(prepared, data, NoBus).ev)) :
       \E res \in {lf_panel_prepare_run(prepared, data, bus)} :
         /\ prepared' = res.prepared
         /\ reset' = ResetAfter(res.ev, reset)
         /\ last' = ReturningCall("prepare", bus, res)
  /\ UNCHANGED <<enabled, data, registered, attached, simple, trip>>

\* prepare() with one of its transactions never returning
Hang_prepare_hangs ==
  /\ registered /\ last.returned
  /\ \E res \in {lf_panel_prepare_run(prepared, data, NoBus)} :
       \E h \in 1..CountTx(res.ev) :
         /\ last' = HungCall("prepare", h, res.ev)
         /\ reset' = ResetAfter(last'.ev, reset)
  /\ UNCHANGED <<prepared, enabled, data, registered, attached, simple, trip>>

Hang_unprepare_returns ==
  /\ registered /\ last.returned
  /\ \E bus \in Schedules(CountTx(lf_panel_unprepare_run(prepared, NoBus).ev)) :
       \E res \in {lf_panel_unprepare_run(prepared, bus)} :
         /\ prepared' = res.prepared
         /\ reset' = ResetAfter(res.ev, reset)
         /\ last' = ReturningCall("unprepare", bus, res)
  /\ UNCHANGED <<enabled, data, registered, attached, simple, trip>>

Hang_unprepare_hangs ==
  /\ registered /\ last.returned
  /\ \E res \in {lf_panel_unprepare_run(prepared, NoBus)} :
       \E h \in 1..CountTx(res.ev) :
         /\ last' = HungCall("unprepare", h, res.ev)
         /\ reset' = ResetAfter(last'.ev, reset)
  /\ UNCHANGED <<prepared, enabled, data, registered, attached, simple, trip>>

\* enable() and disable() start no transaction in this build
Hang_enable ==
  /\ registered /\ last.returned
  /\ \E res \in {lf_panel_enable_run(enabled, data, NoBus)} :
       /\ enabled' = res.enabled
       /\ reset' = ResetAfter(res.ev, reset)
       /\ last' = ReturningCall("enable", NoBus, res)
  /\ UNCHANGED <<prepared, data, registered, attached, simple, trip>>

Hang_disable ==
  /\ registered /\ last.returned
  /\ \E res \in {lf_panel_disable_run(enabled, NoBus)} :
       /\ enabled' = res.enabled
       /\ reset' = ResetAfter(res.ev, reset)
       /\ last' = ReturningCall("disable", NoBus, res)
  /\ UNCHANGED <<prepared, data, registered, attached, simple, trip>>

NextHang ==
  \/ Hang_prepare_returns
  \/ Hang_prepare_hangs
  \/ Hang_unprepare_returns
  \/ Hang_unprepare_hangs
  \/ Hang_enable
  \/ Hang_disable

SpecHang == InitHang /\ [][NextHang]_vars

(***************************************************************************)
(* The driver bound to one of its shipped descriptors: the lifecycle       *)
(* callbacks in any order, any one transaction failing.                    *)
(***************************************************************************)
InitShipped ==
  /\ prepared = FALSE
  /\ enabled = FALSE
  /\ reset = GPIOD_OUT_LOW
  /\ data \in ShippedDescriptors
  /\ registered = TRUE
  /\ attached = TRUE
  /\ last = [op |-> "probe", bus |-> NoBus, ret |-> 0,
             ev |-> lf_panel_probe_run(data, NoBus).ev, returned |-> TRUE,
             was_prepared |-> FALSE, was_enabled |-> FALSE, was_reset |-> GPIOD_OUT_LOW]
  /\ simple = Idle
  /\ trip = Idle

\* prepare() of the shipped descriptor: every transaction succeeds, or one
\* of the first MaxFailAt fails (the preamble and the head of the table)
lf_panel_prepare_shipped ==
  /\ registered
  /\ \E bus \in Schedules(MaxFailAt) :
       \E res \in {lf_panel_prepare_run(prepared, data, bus)} :
         /\ prepared' = res.prepared
         /\ reset' = ResetAfter(res.ev, reset)
         /\ last' = Call("prepare", bus, res)
         /\ UNCHANGED <<enabled, data, registered, attached>>
  /\ UNCHANGED harness

NextShipped ==
  \/ lf_panel_prepare_shipped
  \/ lf_panel_unprepare
  \/ lf_panel_enable
  \/ lf_panel_disable

SpecShipped == InitShipped /\ [][NextShipped]_vars

(***************************************************************************)
(* Reading the events of the last call                                     *)
(***************************************************************************)
TxIdx(ev) == {j \in 1..Len(ev) : IsTx(ev[j])}
WriteIdx(ev) == {j \in 1..Len(ev) : ev[j].k = "write"}
WarnIdx(ev) == {j \in 1..Len(ev) : ev[j].k = "warn"}
FailedIdx(ev) == {j \in TxIdx(ev) : ev[j].r < 0}

\* a table entry that the loop turns into a write
IsWriteEntry(c) == c.cmd # REGFLAG_DELAY /\ c.data_bytes # 0

\* writes a replay of descriptor d issues when none fails
NumWrites(d) == 4 + Cardinality({q \in 1..Len(d.init_cmds) : IsWriteEntry(d.init_cmds[q])})

\* the last call was a prepare() that got past its guard
PrepareRan == last.op = "prepare" /\ ~last.was_prepared

\* ... and its replay got past the lane-count switch
ReplayRan == PrepareRan /\ data.lanes \in {1, 2, 3, 4}

UnprepareRan == last.op = "unprepare" /\ last.was_prepared

(***************************************************************************)
(* C1.  enabled => prepared.  The callbacks do not check each other's      *)
(* flag: enable() on an unprepared panel, or unprepare() on an enabled     *)
(* one, leaves enabled set and prepared clear.                             *)
(***************************************************************************)
\* C1 as stated: in every reachable state, enabled implies prepared
C1_EnabledImpliesPrepared == enabled => prepared

\* C1 amended: both flags start false, and a call made in the state-machine
\* order (enable() only while prepared, unprepare() only while not enabled)
\* never breaks enabled => prepared, whatever the bus transactions return
C1_OrderedCallsKeepInvariant ==
  [][ ( /\ enabled => prepared
        /\ last'.op = "enable" => prepared
        /\ last'.op = "unprepare" => ~enabled )
      => (enabled' => prepared') ]_vars

\* enable() ran on a prepared, disabled panel
C1_Witness ==
  /\ last.op = "enable" /\ last.was_prepared /\ ~last.was_enabled
  /\ enabled /\ prepared

(***************************************************************************)
(* C2.  A failed write ends the replay.                                    *)
(***************************************************************************)
\* C2: when the N-th write of a replay fails, exactly N writes have been
\* attempted, the N-th is the last event of the call, no DCS command
\* follows, and the call returns the code the transport returned
C2_ReplayStopsAtFailedWrite ==
  (ReplayRan /\ last.bus.failAt \in 1..NumWrites(data)) =>
    /\ Cardinality(WriteIdx(last.ev)) = last.bus.failAt
    /\ TxIdx(last.ev) = WriteIdx(last.ev)
    /\ last.ev[Len(last.ev)].k = "write"
    /\ last.ev[Len(last.ev)].r = last.bus.err
    /\ \A j \in WriteIdx(last.ev) : j # Len(last.ev) => last.ev[j].r = 0
    /\ last.ret = last.bus.err

\* the 5th write (the first of the table) failed and a 6th was due
C2_Witness ==
  /\ ReplayRan /\ last.bus.failAt = 5 /\ NumWrites(data) >= 6
  /\ last.ret = -ETIMEDOUT
  /\ Cardinality(WriteIdx(last.ev)) = 5

(***************************************************************************)
(* C3.  A failed transaction fails prepare().                              *)
(***************************************************************************)
\* C3: when a transaction of prepare() fails (a write of the replay, the
\* exit-sleep or the display-on command), prepare() returns its code,
\* nothing is issued after it, and prepared stays false
C3_PrepareFailsOnBusError ==
  (PrepareRan /\ last.bus.failAt >= 1) =>
    /\ last.ret = last.bus.err
    /\ Cardinality(TxIdx(last.ev)) = last.bus.failAt
    /\ FailedIdx(last.ev) = {Len(last.ev)}
    /\ last.ev[Len(last.ev)].r = last.bus.err
    /\ prepared = FALSE

\* the display-on command, the last transaction of prepare(), failed
C3_Witness ==
  /\ PrepareRan /\ last.ret = -EIO /\ ~prepared
  /\ last.ev[Len(last.ev)].k = "dcs"
  /\ last.ev[Len(last.ev)].a = MIPI_DCS_SET_DISPLAY_ON
  /\ data.init_cmds_count >= 2

(***************************************************************************)
(* C4.  A failed command aborts unprepare().                               *)
(***************************************************************************)
\* C4: when display-off or enter-sleep fails, unprepare() returns the
\* error, prepared stays true, the reset line is not driven and nothing
\* sleeps; after a failed display-off, enter-sleep is not issued
C4_UnprepareAbortsOnBusError ==
  (UnprepareRan /\ last.bus.failAt >= 1) =>
    /\ last.ret = last.bus.err
    /\ prepared = TRUE
    /\ reset = last.was_reset
    /\ \A j \in 1..Len(last.ev) : last.ev[j].k = "dcs"
    /\ last.bus.failAt = 1 =>
         last.ev = << Ev("dcs", 0, MIPI_DCS_SET_DISPLAY_OFF, 0, last.bus.err) >>
    /\ last.bus.failAt = 2 =>
         last.ev = << Ev("dcs", 0, MIPI_DCS_SET_DISPLAY_OFF, 0, 0),
                      Ev("dcs", 0, MIPI_DCS_ENTER_SLEEP_MODE, 0, last.bus.err) >>

\* enter-sleep failed after a successful display-off
C4_Witness ==
  /\ UnprepareRan /\ last.bus.failAt = 2 /\ last.ret = -EIO
  /\ prepared /\ Len(last.ev) = 2

(***************************************************************************)
(* C5.  The lane-configuration write.  The table is replayed as it is, so  *)
(* an entry for register 0x80 (the shipped 4-lane table has one on the     *)
(* user page) is written again after the preamble's.                       *)
(***************************************************************************)
\* the j-th event of ev happens while the user page is selected: the
\* latest page select written before it chose JD9365_PAGE_USER
OnUserPage(ev, j) ==
  \E p \in WriteIdx(ev) :
    /\ p < j /\ ev[p].a = JD9365_CMD_PAGE /\ ev[p].b = JD9365_PAGE_USER /\ ev[p].r = 0
    /\ \A q \in WriteIdx(ev) : (p < q /\ q < j) => ev[q].a # JD9365_CMD_PAGE

UserPageWrites(ev, reg) == {j \in WriteIdx(ev) : ev[j].a = reg /\ OnUserPage(ev, j)}

\* C5 as stated: a replay in which every write succeeds emits exactly one
\* write to register 0x80 on the user page, with payload lanes - 1
C5_ExactlyOneLaneWrite ==
  (ReplayRan /\ last.bus.failAt = 0) =>
    /\ Cardinality(UserPageWrites(last.ev, JD9365_CMD_DSI_INIT0)) = 1
    /\ \A j \in UserPageWrites(last.ev, JD9365_CMD_DSI_INIT0) : last.ev[j].b = data.lanes - 1

\* C5 amended: for every lane count 1..4 and every table, a replay in which
\* every write succeeds emits exactly one lane-configuration write of its
\* own, before any table entry, as the 4th write, with payload lanes - 1;
\* every table entry for register 0x80 is written in addition
C5_OnePreambleLaneWrite ==
  (ReplayRan /\ last.bus.failAt = 0) =>
    LET own == {j \in WriteIdx(last.ev) : last.ev[j].i = 0 /\ last.ev[j].a = JD9365_CMD_DSI_INIT0}
        all == {j \in WriteIdx(last.ev) : last.ev[j].a = JD9365_CMD_DSI_INIT0}
        entries == {q \in 1..Len(data.init_cmds) :
                      IsWriteEntry(data.init_cmds[q]) /\ data.init_cmds[q].cmd = JD9365_CMD_DSI_INIT0}
    IN /\ Cardinality(own) = 1
       /\ \A j \in own : /\ last.ev[j].b = data.lanes - 1
                         /\ Cardinality({q \in WriteIdx(last.ev) : q <= j}) = 4
                         /\ OnUserPage(last.ev, j)
       /\ Cardinality(all) = 1 + Cardinality(entries)

\* a 3-lane replay of a table that itself writes register 0x80
C5_Witness ==
  /\ ReplayRan /\ last.ret = 0 /\ data.lanes = 3
  /\ \E j \in WriteIdx(last.ev) :
       last.ev[j].a = JD9365_CMD_DSI_INIT0 /\ last.ev[j].i = 0 /\ last.ev[j].b = JD9365_DSI_3_LANE
  /\ \E j \in WriteIdx(last.ev) :
       last.ev[j].a = JD9365_CMD_DSI_INIT0 /\ last.ev[j].i > 0

(***************************************************************************)
(* C6.  An unsupported lane count.                                         *)
(***************************************************************************)
\* C6: with a lane count outside 1..4 the replay returns an error and has
\* attempted no transaction: prepare() has done its reset pulse only
C6_BadLaneCountNoTraffic ==
  (PrepareRan /\ data.lanes \notin {1, 2, 3, 4}) =>
    /\ last.ret < 0
    /\ TxIdx(last.ev) = {}
    /\ last.ev = ResetPulse

\* 5 lanes and a table with a register write in it
C6_Witness ==
  /\ PrepareRan /\ data.lanes = 5 /\ last.ret = -1
  /\ \E q \in 1..Len(data.init_cmds) : IsWriteEntry(data.init_cmds[q])

(***************************************************************************)
(* C7.  A table entry that overrides the descriptor's MADCTL.              *)
(***************************************************************************)
IsPageSelect(c) == IsWriteEntry(c) /\ c.cmd = JD9365_CMD_PAGE

\* entry i of table t comes after a page select to the user page with no
\* page select to another page in between
AfterUserPageSelect(t, i) ==
  \E p \in 1..(i - 1) :
    /\ IsPageSelect(t[p]) /\ t[p].data = JD9365_PAGE_USER
    /\ \A q \in (p + 1)..(i - 1) : IsPageSelect(t[q]) => t[q].data = JD9365_PAGE_USER

\* entry i of table t is reached when none of the writes before it fails
WritesBefore(t, i) == 4 + Cardinality({q \in 1..(i - 1) : IsWriteEntry(t[q])})
Reached(t, i) == last.bus.failAt = 0 \/ last.bus.failAt > WritesBefore(t, i)

\* C7: an address-mode entry after a user-page select whose value differs
\* from the descriptor's MADCTL gets a conflict message and is written
\* all the same, with the table's value, right after the message
C7_MadctlConflictWarnsAndWrites ==
  ReplayRan =>
    \A i \in 1..Len(data.init_cmds) :
      LET c == data.init_cmds[i] IN
        ( /\ IsWriteEntry(c) /\ c.cmd = MIPI_DCS_SET_ADDRESS_MODE
          /\ c.data # data.madctl_val
          /\ AfterUserPageSelect(data.init_cmds, i)
          /\ Reached(data.init_cmds, i) )
        => \E j \in WarnIdx(last.ev) :
             /\ last.ev[j].i = i /\ last.ev[j].a = MIPI_DCS_SET_ADDRESS_MODE
             /\ j + 1 \in WriteIdx(last.ev)
             /\ last.ev[j + 1].i = i
             /\ last.ev[j + 1].a = MIPI_DCS_SET_ADDRESS_MODE
             /\ last.ev[j + 1].b = c.data

\* a successful replay of [page select user, address mode 0x08] with MADCTL 0
C7_Witness ==
  /\ ReplayRan /\ last.ret = 0 /\ data.madctl_val = 0
  /\ Len(data.init_cmds) = 2
  /\ data.init_cmds[2].cmd = MIPI_DCS_SET_ADDRESS_MODE
  /\ AfterUserPageSelect(data.init_cmds, 2)
  /\ \E j \in WarnIdx(last.ev) : last.ev[j].i = 2

(***************************************************************************)
(* C8.  The end-to-end scenario.  The table's first three entries repeat   *)
(* the preamble; they are written like any other entry.                    *)
(***************************************************************************)
ScenarioRan ==
  /\ ReplayRan /\ last.bus.failAt = 0
  /\ data.lanes = 4 /\ data.madctl_val = 0 /\ data.colmod_val = 119
  /\ data.init_cmds \in ScenarioTables

\* the write events of ev, in order, as <<register, payload>>
RECURSIVE WritesOf(_)
WritesOf(ev) ==
  IF ev = <<>> THEN <<>>
  ELSE (IF Head(ev).k = "write" THEN << <<Head(ev).a, Head(ev).b>> >> ELSE <<>>)
       \o WritesOf(Tail(ev))

\* C8 as stated: 7 transactions in the replay and no conflict message
C8_SevenTransactions ==
  ScenarioRan =>
    /\ Cardinality(WriteIdx(last.ev)) = 7
    /\ WarnIdx(last.ev) = {}

\* C8 amended: the replay issues the 4 preamble writes (page, MADCTL,
\* COLMOD, lane configuration), then all 6 table entries in table order,
\* 10 transactions in total, and no conflict message
C8_TenTransactions ==
  ScenarioRan =>
    /\ WritesOf(last.ev) =
         << <<JD9365_CMD_PAGE, 0>>, <<MIPI_DCS_SET_ADDRESS_MODE, 0>>,
            <<MIPI_DCS_SET_PIXEL_FORMAT, 119>>, <<JD9365_CMD_DSI_INIT0, 3>> >>
         \o [q \in 1..6 |-> <<data.init_cmds[q].cmd, data.init_cmds[q].data>>]
    /\ Cardinality(WriteIdx(last.ev)) = 10
    /\ WarnIdx(last.ev) = {}
    /\ \A j \in WriteIdx(last.ev) : last.ev[j].r = 0

\* the scenario ran to the end and prepare() succeeded
C8_Witness == ScenarioRan /\ last.ret = 0 /\ prepared

(***************************************************************************)
(* C9.  Delay directives.                                                  *)
(***************************************************************************)
\* C9: a delay entry of value D that the replay reaches contributes one
\* msleep(D) and nothing else; what the earlier entries contributed comes
\* before it and what the later entries contribute comes after it
C9_DelaySleepsWithoutTraffic ==
  ReplayRan =>
    \A i \in 1..Len(data.init_cmds) :
      LET c == data.init_cmds[i] IN
        (c.cmd = REGFLAG_DELAY /\ Reached(data.init_cmds, i)) =>
          \E j \in 1..Len(last.ev) :
            /\ last.ev[j] = Ev("sleep", i, c.data_bytes, 0, 0)
            /\ \A q \in 1..Len(last.ev) : last.ev[q].i = i => q = j
            /\ \A q \in 1..(j - 1) : last.ev[q].i < i
            /\ \A q \in (j + 1)..Len(last.ev) : last.ev[q].i > i \/ last.ev[q].k = "dcs"
            /\ Cardinality({q \in TxIdx(last.ev) : q < j}) = WritesBefore(data.init_cmds, i)

\* a delay of 5 ms between two table writes of a successful replay
C9_Witness ==
  /\ ReplayRan /\ last.ret = 0
  /\ \E j \in 2..(Len(last.ev) - 1) :
       /\ last.ev[j].k = "sleep" /\ last.ev[j].i > 0 /\ last.ev[j].a = 5
       /\ last.ev[j - 1].k = "write" /\ last.ev[j - 1].i > 0
       /\ last.ev[j + 1].k = "write"

(***************************************************************************)
(* C10.  prepare() on a prepared panel.                                    *)
(***************************************************************************)
\* C10: prepare() called while prepared returns 0, has no event (no reset
\* change, no sleep, no transaction) and leaves both flags as they were
C10_PrepareWhenPreparedIsNoop ==
  (last.op = "prepare" /\ last.was_prepared) =>
    /\ last.ret = 0
    /\ last.ev = <<>>
    /\ prepared = TRUE
    /\ enabled = last.was_enabled
    /\ reset = last.was_reset

\* prepare() called again on a prepared and enabled panel
C10_Witness ==
  /\ last.op = "prepare" /\ last.was_prepared /\ last.was_enabled
  /\ prepared /\ enabled /\ reset = 1

(***************************************************************************)
(* C11.  unprepare() on an unprepared panel.                               *)
(***************************************************************************)
DcsIdx(ev, cmds) == {j \in 1..Len(ev) : ev[j].k = "dcs" /\ ev[j].a \in cmds}

\* C11: unprepare() called while prepared is false returns 0, has no event
\* (no display-off, no enter-sleep, no reset change) and leaves both flags;
\* so display-off and enter-sleep only go out of a call that found
\* prepared true
C11_UnprepareWhenUnpreparedIsNoop ==
  /\ (last.op = "unprepare" /\ ~last.was_prepared) =>
       /\ last.ret = 0
       /\ last.ev = <<>>
       /\ prepared = FALSE
       /\ enabled = last.was_enabled
       /\ reset = last.was_reset
  /\ DcsIdx(last.ev, {MIPI_DCS_SET_DISPLAY_OFF, MIPI_DCS_ENTER_SLEEP_MODE}) # {}
       => last.was_prepared

\* unprepare() called again right after a successful unprepare(): the reset
\* line is still at the level the first call left
C11_Witness ==
  /\ last.op = "unprepare" /\ ~last.was_prepared
  /\ ~prepared /\ reset = 1 /\ last.ret = 0

(***************************************************************************)
(* C12.  enable() on an enabled panel.                                     *)
(***************************************************************************)
\* C12: enable() called while enabled is true (the second of two calls in
\* a row) returns 0, has no event and changes nothing
C12_EnableWhenEnabledIsNoop ==
  (last.op = "enable" /\ last.was_enabled) =>
    /\ last.ret = 0
    /\ last.ev = <<>>
    /\ enabled = TRUE
    /\ prepared = last.was_prepared
    /\ reset = last.was_reset

\* a second enable() on a prepared panel
C12_Witness ==
  /\ last.op = "enable" /\ last.was_enabled /\ last.was_prepared
  /\ enabled /\ prepared

(***************************************************************************)
(* C13.  enable() and disable() in the split the source compiles.          *)
(***************************************************************************)
\* C13: enable() and disable() have no event, return 0 and leave prepared
\* and the reset line; enable() leaves enabled true, disable() false;
\* display-on only goes out of prepare(), display-off only of unprepare()
C13_EnableDisableArePureTransitions ==
  /\ last.op \in {"enable", "disable"} =>
       /\ last.ev = <<>>
       /\ last.ret = 0
       /\ prepared = last.was_prepared
       /\ reset = last.was_reset
       /\ enabled = (last.op = "enable")
  /\ DcsIdx(last.ev, {MIPI_DCS_SET_DISPLAY_ON}) # {} => last.op = "prepare"
  /\ DcsIdx(last.ev, {MIPI_DCS_SET_DISPLAY_OFF}) # {} => last.op = "unprepare"

\* disable() turned an enabled, prepared panel back to prepared
C13_Witness ==
  /\ last.op = "disable" /\ last.was_enabled /\ last.was_prepared
  /\ ~enabled /\ prepared /\ reset = 1

(***************************************************************************)
(* C14.  get_modes().  When drm_mode_duplicate returns NULL the function   *)
(* logs "failed to add mode" and goes on to use the pointer.               *)
(***************************************************************************)
EvIdx(ev, k) == {j \in 1..Len(ev) : ev[j].k = k}

\* C14: every get_modes() call, in every lifecycle state, returns 1
\* having added exactly one copy of the descriptor's mode to the connector,
\* also when drm_mode_duplicate fails
C14_GetModesAddsOneCopy ==
  last.op = "get_modes" =>
    /\ last.returned
    /\ last.ret = 1
    /\ Cardinality(EvIdx(last.ev, "add")) = 1
    /\ \A j \in EvIdx(last.ev, "add") : last.ev[j].a = 1

(***************************************************************************)
(* C15.  Configuration errors at bind time.  lf_panel_probe rejects a      *)
(* missing descriptor; the lane count is first looked at by the            *)
(* interpreter, in prepare().                                              *)
(***************************************************************************)
LifecycleOps == {"prepare", "unprepare", "enable", "disable", "get_modes"}

\* the last call was a probe whose of_device_get_match_data returned present
ProbeMatched(present) ==
  /\ last.op = "probe"
  /\ \E j \in EvIdx(last.ev, "match") : last.ev[j].a = (IF present THEN 1 ELSE 0)

\* C15 as stated: a probe with a missing descriptor or with a lane count
\* outside 1..4 fails and leaves nothing registered or attached, and no
\* lifecycle operation ever runs on such a descriptor
C15_ConfigurationErrorFailsProbe ==
  /\ ProbeMatched(FALSE) => (last.ret < 0 /\ ~registered /\ ~attached)
  /\ (registered \/ attached) => (data # NoData /\ data.lanes \in {1, 2, 3, 4})
  /\ last.op \in LifecycleOps => (data # NoData /\ data.lanes \in {1, 2, 3, 4})

\* C15 amended: a probe with a missing descriptor returns -EINVAL before
\* the reset GPIO is requested, the panel registered or the device
\* attached, and no lifecycle operation ever runs without a descriptor;
\* the lane count is not looked at by probe, which succeeds for any lane
\* count when its resources are there and hands the count to the host;
\* a lane count outside 1..4 is detected by the replay of prepare(), which
\* returns -1 without a transaction and leaves prepared false
C15_MissingDescriptorFailsProbe ==
  /\ ProbeMatched(FALSE) =>
       /\ last.ret = -EINVAL
       /\ EvIdx(last.ev, "gpiod_get") \cup EvIdx(last.ev, "panel_add")
            \cup EvIdx(last.ev, "attach") = {}
       /\ ~registered /\ ~attached /\ data = NoData
  /\ (registered \/ attached) => data # NoData
  /\ last.op \in LifecycleOps => (registered /\ data # NoData)
  /\ (ProbeMatched(TRUE) /\ last.bus.failAt = 0) =>
       /\ last.ret = 0 /\ registered /\ attached /\ data # NoData
       /\ \A j \in EvIdx(last.ev, "attach") : last.ev[j].a = data.lanes
  /\ (PrepareRan /\ data.lanes \notin {1, 2, 3, 4}) =>
       /\ last.ret = -1
       /\ TxIdx(last.ev) = {}
       /\ ~prepared

\* a probe that found no descriptor
C15_Witness ==
  /\ ProbeMatched(FALSE) /\ last.ret = -EINVAL
  /\ ~registered /\ ~attached /\ data = NoData

(***************************************************************************)
(* C16.  The order of a successful prepare().                              *)
(***************************************************************************)
\* C16: a successful prepare() of an unprepared panel drives reset 1,
\* sleeps 5, drives 0, sleeps 10, drives 1, sleeps 120; then come the
\* replay's events, then exit-sleep, then display-on, and prepared is set;
\* no transaction precedes the 120 ms wait, and prepared is only true
\* after a successful display-on
C16_PrepareOrder ==
  /\ (PrepareRan /\ last.ret = 0) =>
       LET n == Len(last.ev) IN
         /\ n >= 12
         /\ SubSeq(last.ev, 1, 6) =
              << Ev("gpio", 0, 1, 0, 0), Ev("sleep", 0, 5, 0, 0),
                 Ev("gpio", 0, 0, 0, 0), Ev("sleep", 0, 10, 0, 0),
                 Ev("gpio", 0, 1, 0, 0), Ev("sleep", 0, 120, 0, 0) >>
         /\ \A j \in 7..(n - 2) :
              /\ last.ev[j].k \in {"write", "warn", "sleep"}
              /\ last.ev[j].k = "sleep" => last.ev[j].i > 0
         /\ Cardinality({j \in 7..(n - 2) : last.ev[j].k = "write"}) = NumWrites(data)
         /\ last.ev[n - 1] = Ev("dcs", 0, MIPI_DCS_EXIT_SLEEP_MODE, 0, 0)
         /\ last.ev[n] = Ev("dcs", 0, MIPI_DCS_SET_DISPLAY_ON, 0, 0)
         /\ prepared = TRUE
  /\ PrepareRan =>
       /\ \A j \in TxIdx(last.ev) :
            /\ j > 6
            /\ last.ev[6] = Ev("sleep", 0, 120, 0, 0)
       /\ prepared =>
            last.ev[Len(last.ev)] = Ev("dcs", 0, MIPI_DCS_SET_DISPLAY_ON, 0, 0)

\* a successful prepare() whose replay has table writes and a delay
C16_Witness ==
  /\ PrepareRan /\ last.ret = 0 /\ prepared
  /\ Len(last.ev) >= 15
  /\ \E j \in 7..Len(last.ev) : last.ev[j].k = "sleep"

(***************************************************************************)
(* C17.  The order of a successful unprepare().                            *)
(***************************************************************************)
\* C17: a successful unprepare() of a prepared panel sends display-off,
\* then enter-sleep, then drives reset 1, then sleeps 120 ms, and prepared
\* is cleared; the reset line is never driven before enter-sleep succeeded
C17_UnprepareOrder ==
  /\ (UnprepareRan /\ last.ret = 0) =>
       /\ last.ev = << Ev("dcs", 0, MIPI_DCS_SET_DISPLAY_OFF, 0, 0),
                       Ev("dcs", 0, MIPI_DCS_ENTER_SLEEP_MODE, 0, 0),
                       Ev("gpio", 0, 1, 0, 0), Ev("sleep", 0, 120, 0, 0) >>
       /\ prepared = FALSE
       /\ reset = 1
  /\ last.op = "unprepare" =>
       \A j \in 1..Len(last.ev) :
         last.ev[j].k = "gpio" =>
           \E q \in 1..(j - 1) : last.ev[q] = Ev("dcs", 0, MIPI_DCS_ENTER_SLEEP_MODE, 0, 0)

\* a successful unprepare() of a prepared panel
C17_Witness ==
  /\ UnprepareRan /\ last.ret = 0 /\ ~prepared /\ Len(last.ev) = 4

(***************************************************************************)
(* C18.  The preamble comes first.                                         *)
(***************************************************************************)
\* the lane encoding of the data sheet: 1 lane 0x00 ... 4 lanes 0x03
PreambleExpected(d) ==
  << <<224, 0>>, <<54, d.madctl_val>>, <<58, d.colmod_val>>, <<128, d.lanes - 1>> >>

\* C18: the first four writes of a replay are page select <- user page,
\* address mode <- MADCTL, pixel format <- COLMOD, lane configuration <-
\* encoded lane count, in this order (as many of them as the replay gets
\* to), and they precede everything that comes from the table
C18_PreambleFirst ==
  ReplayRan =>
    LET w == WritesOf(last.ev)
        m == IF Len(w) < 4 THEN Len(w) ELSE 4
    IN /\ SubSeq(w, 1, m) = SubSeq(PreambleExpected(data), 1, m)
       /\ (last.bus.failAt = 0 \/ last.bus.failAt > 4) => Len(w) >= 4
       /\ \A j \in 1..Len(last.ev) :
            last.ev[j].i > 0 =>
              Cardinality({q \in WriteIdx(last.ev) : q < j /\ last.ev[q].i = 0}) = 4
       /\ \A j \in WriteIdx(last.ev) :
            last.ev[j].i > 0 =>
              \E q \in WriteIdx(last.ev) :
                q < j /\ last.ev[q].i = 0 /\ last.ev[q].a = JD9365_CMD_DSI_INIT0

\* a replay whose table writes the address-mode register again
C18_Witness ==
  /\ ReplayRan /\ last.ret = 0 /\ data.madctl_val = 8 /\ data.lanes = 4
  /\ \E j \in WriteIdx(last.ev) :
       last.ev[j].i > 0 /\ last.ev[j].a = MIPI_DCS_SET_ADDRESS_MODE

(***************************************************************************)
(* C19.  The table is replayed in order.  An entry without payload         *)
(* (data_bytes = 0) is skipped: it is neither a delay nor a transaction.   *)
(***************************************************************************)
\* the non-delay entries of table t from the i-th on (with nonempty: only
\* those that have a payload), as <<register, payload>>
RECURSIVE EntriesFrom(_, _, _)
EntriesFrom(t, i, nonempty) ==
  IF i > Len(t) THEN <<>>
  ELSE (IF t[i].cmd # REGFLAG_DELAY /\ (~nonempty \/ t[i].data_bytes # 0)
        THEN << <<t[i].cmd, t[i].data>> >> ELSE <<>>)
       \o EntriesFrom(t, i + 1, nonempty)

\* the writes of ev that come from the table, as <<register, payload>>
TableWritesOf(ev) == SubSeq(WritesOf(ev), 5, Len(WritesOf(ev)))

\* C19 as stated: in a replay where every write succeeds, the table
\* transactions are the non-delay entries, one each, in table order
C19_OneWritePerNonDelayEntry ==
  (ReplayRan /\ last.bus.failAt = 0) =>
    TableWritesOf(last.ev) = EntriesFrom(data.init_cmds, 1, FALSE)

\* C19 amended: in a replay where every write succeeds, the table
\* transactions are the non-delay entries that have a payload, one each,
\* with the entry's register and payload, in table order, and the
\* interpreter emits no other transaction after the preamble; a non-delay
\* entry with data_bytes = 0 is skipped
C19_OneWritePerPayloadEntry ==
  (ReplayRan /\ last.bus.failAt = 0) =>
    /\ TableWritesOf(last.ev) = EntriesFrom(data.init_cmds, 1, TRUE)
    /\ \A j \in WriteIdx(last.ev) :
         last.ev[j].i > 0 =>
           /\ IsWriteEntry(data.init_cmds[last.ev[j].i])
           /\ last.ev[j].a = data.init_cmds[last.ev[j].i].cmd
           /\ last.ev[j].b = data.init_cmds[last.ev[j].i].data
           /\ \A q \in WriteIdx(last.ev) : q < j => last.ev[q].i < last.ev[j].i
    /\ Cardinality({j \in WriteIdx(last.ev) : last.ev[j].i > 0}) =
         Cardinality({q \in 1..Len(data.init_cmds) : IsWriteEntry(data.init_cmds[q])})

\* a successful replay of a table with a write, an empty entry and a delay
C19_Witness ==
  /\ ReplayRan /\ last.ret = 0
  /\ \E q \in 1..Len(data.init_cmds) :
       data.init_cmds[q].cmd # REGFLAG_DELAY /\ data.init_cmds[q].data_bytes = 0
  /\ \E q \in 1..Len(data.init_cmds) : data.init_cmds[q].cmd = REGFLAG_DELAY
  /\ Len(TableWritesOf(last.ev)) >= 2

(***************************************************************************)
(* C20.  No conflict detection off the user page.                          *)
(***************************************************************************)
\* the page select in force at entry i of table t chose another page than
\* the user page
OffUserPage(t, i) ==
  \E p \in 1..(i - 1) :
    /\ IsPageSelect(t[p]) /\ t[p].data # JD9365_PAGE_USER
    /\ \A q \in (p + 1)..(i - 1) : ~IsPageSelect(t[q])

\* C20: an entry processed while the latest page select chose another page
\* than 0x00 gets no conflict message, whatever it writes; the entries
\* before the first page select are on the user page
C20_NoWarningOffUserPage ==
  ReplayRan =>
    /\ \A j \in WarnIdx(last.ev) : ~OffUserPage(data.init_cmds, last.ev[j].i)
    /\ \A i \in 1..Len(data.init_cmds) :
         LET c == data.init_cmds[i] IN
           ( /\ IsWriteEntry(c) /\ Reached(data.init_cmds, i)
             /\ \A p \in 1..(i - 1) : ~IsPageSelect(data.init_cmds[p])
             /\ c.cmd \in {MIPI_DCS_SET_ADDRESS_MODE, MIPI_DCS_SET_PIXEL_FORMAT}
             /\ c.data # (IF c.cmd = MIPI_DCS_SET_ADDRESS_MODE
                          THEN data.madctl_val ELSE data.colmod_val) )
           => \E j \in WarnIdx(last.ev) : last.ev[j].i = i

\* page 1 is selected, then the address-mode register is written with a
\* value that differs from MADCTL: the write goes out without a message
C20_Witness ==
  /\ ReplayRan /\ last.ret = 0 /\ data.madctl_val = 0
  /\ Len(data.init_cmds) >= 2
  /\ IsPageSelect(data.init_cmds[1]) /\ data.init_cmds[1].data = 1
  /\ data.init_cmds[2] = Cmd(MIPI_DCS_SET_ADDRESS_MODE, 1, 8)
  /\ \E j \in WriteIdx(last.ev) : last.ev[j].i = 2
  /\ \A j \in WarnIdx(last.ev) : last.ev[j].i # 2

(***************************************************************************)
(* C21.  The lifecycle under a caller that keeps the order.                *)
(***************************************************************************)
StUnprepared == <<FALSE, FALSE>>
StPrepared == <<TRUE, FALSE>>
StEnabled == <<TRUE, TRUE>>

LifecyclePath ==
  { <<StUnprepared, StPrepared>>, <<StPrepared, StEnabled>>,
    <<StEnabled, StPrepared>>, <<StPrepared, StUnprepared>> }

\* C21: under a caller that keeps the order, enabled => prepared in every
\* state; prepared is true exactly from a prepare() that returned 0 to the
\* next unprepare() that returned 0 (so "after a successful prepare() with
\* no later successful unprepare()" is "while prepared"), whatever the
\* transactions return; and every change of the flag pair is a step of
\* UNPREPARED -> PREPARED -> ENABLED -> PREPARED -> UNPREPARED
C21_OrderedLifecycle ==
  /\ [](enabled => prepared)
  /\ [][ last'.op \in LifecycleOps =>
           /\ prepared' = ( IF last'.op = "prepare" /\ last'.ret = 0 THEN TRUE
                            ELSE IF last'.op = "unprepare" /\ last'.ret = 0 THEN FALSE
                            ELSE prepared )
           /\ enabled' = ( IF last'.op = "enable" THEN TRUE
                           ELSE IF last'.op = "disable" THEN FALSE
                           ELSE enabled )
           /\ <<prepared', enabled'>> # <<prepared, enabled>> =>
                << <<prepared, enabled>>, <<prepared', enabled'>> >> \in LifecyclePath
       ]_vars

\* an unprepare() of a prepared, disabled panel failed on the bus: the
\* panel stays PREPARED
C21_Witness ==
  /\ last.op = "unprepare" /\ last.was_prepared /\ ~last.was_enabled
  /\ last.ret < 0
  /\ <<prepared, enabled>> = StPrepared

(***************************************************************************)
(* C22.  A call made again after it failed starts over.                    *)
(***************************************************************************)
\* the index of the first transaction of ev, if it has one
FirstTx(ev) == {j \in TxIdx(ev) : \A q \in TxIdx(ev) : j <= q}

\* C22: the prepare() that follows a failed prepare() drives the whole
\* reset pulse again and its first transaction is the first preamble write
\* (page select <- user page), wherever the failed call had stopped; the
\* unprepare() that follows an unprepare() that failed at enter-sleep
\* sends display-off first again
C22_RetryStartsOver ==
  [][ /\ ( /\ last.op = "prepare" /\ ~last.was_prepared /\ last.ret # 0
           /\ last'.op = "prepare" ) =>
           /\ Len(last'.ev) >= 6
           /\ SubSeq(last'.ev, 1, 6) =
                << Ev("gpio", 0, 1, 0, 0), Ev("sleep", 0, 5, 0, 0),
                   Ev("gpio", 0, 0, 0, 0), Ev("sleep", 0, 10, 0, 0),
                   Ev("gpio", 0, 1, 0, 0), Ev("sleep", 0, 120, 0, 0) >>
           /\ data.lanes \in {1, 2, 3, 4} => FirstTx(last'.ev) = {7}
           /\ \A j \in FirstTx(last'.ev) :
                /\ last'.ev[j].k = "write" /\ last'.ev[j].i = 0
                /\ last'.ev[j].a = JD9365_CMD_PAGE /\ last'.ev[j].b = JD9365_PAGE_USER
      /\ ( /\ last.op = "unprepare" /\ last.was_prepared /\ last.ret # 0
           /\ DcsIdx(last.ev, {MIPI_DCS_ENTER_SLEEP_MODE}) # {}
           /\ last'.op = "unprepare" ) =>
           /\ FirstTx(last'.ev) = {1}
           /\ last'.ev[1].k = "dcs" /\ last'.ev[1].a = MIPI_DCS_SET_DISPLAY_OFF
    ]_vars

\* a prepare() that found the reset line already high and prepared false:
\* an earlier prepare() has run, and this one got through
C22_Witness ==
  /\ PrepareRan /\ last.was_reset = 1 /\ ~last.was_enabled
  /\ last.ret = 0 /\ prepared
  /\ Len(WritesOf(last.ev)) > 4

(***************************************************************************)
(* C23.  Failed calls and the instance state.  A failed prepare() leaves   *)
(* the flags alone, but it has driven the reset pulse: a line that was at  *)
(* its probe-time level 0 is left at 1.                                    *)
(***************************************************************************)
\* C23: after a prepare() or unprepare() that returns an error, prepared,
\* enabled and the level of the reset line are what they were before
C23_FailureLeavesStateUnchanged ==
  (last.op \in {"prepare", "unprepare"} /\ last.ret # 0) =>
    /\ prepared = last.was_prepared
    /\ enabled = last.was_enabled
    /\ reset = last.was_reset

(***************************************************************************)
(* C25.  What a failed probe leaves behind.                                *)
(***************************************************************************)
\* C25: a probe that returns an error leaves no panel registered: either
\* drm_panel_add was never called, or the attach failed and
\* drm_panel_remove followed drm_panel_add before the return; a probe
\* requests the reset GPIO once, as GPIOD_OUT_LOW, after the descriptor
\* has been resolved, and not at all when there is no descriptor or no
\* memory; the errors are -ENOMEM, -EINVAL and what devm_gpiod_get or
\* mipi_dsi_attach returned
C25_FailedProbeLeavesNothing ==
  last.op = "probe" =>
    LET ev == last.ev
        adds == EvIdx(ev, "panel_add")
        removes == EvIdx(ev, "panel_remove")
        gets == EvIdx(ev, "gpiod_get")
    IN /\ last.ret # 0 =>
            /\ ~registered /\ ~attached /\ data = NoData
            /\ \/ adds = {}
               \/ /\ \E j \in EvIdx(ev, "attach") : ev[j].r < 0 /\ last.ret = ev[j].r
                  /\ Cardinality(adds) = 1 /\ Cardinality(removes) = 1
                  /\ \A j \in adds : \A q \in removes : j < q
                  /\ removes = {Len(ev)}
       /\ last.ret = 0 => (registered /\ attached /\ removes = {})
       /\ Cardinality(gets) = (IF ProbeMatched(TRUE) THEN 1 ELSE 0)
       /\ \A j \in gets :
            /\ ev[j].a = GPIOD_OUT_LOW
            /\ \E q \in EvIdx(ev, "match") : q < j /\ ev[q].a = 1
            /\ \A q \in adds \cup EvIdx(ev, "attach") : j < q
            /\ ev[j].r # 0 => (last.ret = ev[j].r /\ adds = {})
       /\ (\E j \in EvIdx(ev, "kzalloc") : ev[j].r # 0) =>
            (last.ret = -ENOMEM /\ Len(ev) = 1)
       /\ ProbeMatched(FALSE) => last.ret = -EINVAL

\* the attach failed: the panel was added and removed again
C25_Witness ==
  /\ last.op = "probe" /\ last.ret \in {-ENOSYS, -EIO}
  /\ EvIdx(last.ev, "panel_add") # {} /\ EvIdx(last.ev, "panel_remove") # {}
  /\ ~registered /\ ~attached

(***************************************************************************)
(* C28.  The reset line between calls.                                     *)
(***************************************************************************)
\* C28: while the panel is bound, prepared implies the reset line is at 1;
\* the line is at 1 after every prepare() that got past its guard, even
\* one that failed, and no lifecycle call takes a line at 1 back to 0, so
\* the line is at its probe-time level 0 only while no prepare() has got
\* past the guard; a successful unprepare() leaves it at 1
C28_ResetLineBetweenCalls ==
  registered =>
    /\ prepared => reset = 1
    /\ PrepareRan => reset = 1
    /\ (last.op \in LifecycleOps /\ last.was_reset = 1) => reset = 1
    /\ (last.op \in LifecycleOps /\ ~PrepareRan) => reset = last.was_reset
    /\ last.op = "probe" => reset = GPIOD_OUT_LOW
    /\ (UnprepareRan /\ last.ret = 0) => (reset = 1 /\ ~prepared)

\* the first prepare() after probe failed on the bus: the panel is not
\* prepared and the line is at 1
C28_Witness ==
  /\ registered /\ PrepareRan /\ last.was_reset = 0 /\ last.ret < 0
  /\ ~prepared /\ reset = 1

(***************************************************************************)
(* C29.  How many conflict messages a replay emits.                        *)
(***************************************************************************)
\* the value the preamble wrote to the register of entry c, taken from the
\* descriptor (the lane count in the data sheet's encoding)
DescriptorValue(d, c) ==
  IF c.cmd = 54 THEN d.madctl_val
  ELSE IF c.cmd = 58 THEN d.colmod_val
  ELSE d.lanes - 1

\* the entries of d's table that are written on the user page, target
\* 0x36, 0x3A or 0x80 and carry another value than the descriptor's
ConflictEntries(d) ==
  { i \in 1..Len(d.init_cmds) :
      /\ IsWriteEntry(d.init_cmds[i])
      /\ ~OffUserPage(d.init_cmds, i)
      /\ d.init_cmds[i].cmd \in {54, 58, 128}
      /\ d.init_cmds[i].data # DescriptorValue(d, d.init_cmds[i]) }

\* C29: a replay where every write succeeds emits one conflict message for
\* each entry written on the user page that targets 0x36, 0x3A or 0x80
\* with a value different from the descriptor's, and no other; the
\* comparison is with the descriptor, not with the value written last: a
\* conflicting entry that is repeated is reported again, an entry that
\* writes the descriptor's value back is not
C29_OneWarningPerConflict ==
  (ReplayRan /\ last.bus.failAt = 0) =>
    /\ Cardinality(WarnIdx(last.ev)) = Cardinality(ConflictEntries(data))
    /\ {last.ev[j].i : j \in WarnIdx(last.ev)} = ConflictEntries(data)
    /\ \A j \in WarnIdx(last.ev) : last.ev[j].a = data.init_cmds[last.ev[j].i].cmd

\* address mode written 0x08, 0x00, 0x08 over MADCTL 0x00: two messages,
\* for the first and the third entry
C29_Witness ==
  /\ ReplayRan /\ last.ret = 0 /\ data.madctl_val = 0
  /\ Len(data.init_cmds) = 3
  /\ \A i \in 1..3 : data.init_cmds[i].cmd = MIPI_DCS_SET_ADDRESS_MODE
  /\ {last.ev[j].i : j \in WarnIdx(last.ev)} = {1, 3}

(***************************************************************************)
(* C30.  prepare() with a lane count the driver does not support.          *)
(***************************************************************************)
\* C30: every prepare() of a panel whose lane count is outside 1..4, the
\* first and each one after it, gets past the guard, drives the complete
\* reset pulse and nothing else, returns -1 and leaves prepared false
C30_BadLaneCountPulsesThenFails ==
  /\ (registered /\ data.lanes \notin {1, 2, 3, 4}) => ~prepared
  /\ (last.op = "prepare" /\ data.lanes \notin {1, 2, 3, 4}) =>
       /\ ~last.was_prepared
       /\ last.ev = << Ev("gpio", 0, 1, 0, 0), Ev("sleep", 0, 5, 0, 0),
                       Ev("gpio", 0, 0, 0, 0), Ev("sleep", 0, 10, 0, 0),
                       Ev("gpio", 0, 1, 0, 0), Ev("sleep", 0, 120, 0, 0) >>
       /\ last.ret = -1
       /\ ~prepared
       /\ reset = 1

\* a prepare() of a panel without lanes that found the line already at 1:
\* it is not the first
C30_Witness ==
  /\ last.op = "prepare" /\ data.lanes = 0 /\ last.was_reset = 1
  /\ last.ret = -1 /\ ~prepared

(***************************************************************************)
(* C24: the round trip prepare(), enable(), disable(), unprepare() from    *)
(* prepared = enabled = false, every transaction succeeding, returns both  *)
(* flags to false in either revision, and the prepare() that follows       *)
(* returns the same result with the same events (reset pulse, replay, bus  *)
(* trace) and the same flag as the first one.                              *)
(***************************************************************************)
C24_RoundTrip ==
  /\ trip.pc = 4 =>
        /\ ~prepared /\ ~enabled
        /\ ~simple.prepared /\ ~simple.enabled
  /\ trip.pc = 5 =>
        /\ last.op = "prepare"
        /\ [ret |-> last.ret, ev |-> last.ev, prepared |-> prepared] = trip.first
        /\ [ret |-> simple.ret, ev |-> simple.ev, prepared |-> simple.prepared]
             = trip.simple_first

\* the second prepare() of a round trip replayed a table in both revisions
C24_Witness ==
  /\ trip.pc = 5
  /\ prepared /\ simple.prepared
  /\ CountTx(last.ev) > NumWrites(PanelData(data.lanes, 0, 0, <<>>)) + 2
  /\ CountTx(simple.ev) > 2

(***************************************************************************)
(* C27: given the same calls, every transaction succeeding and the richer  *)
(* revision's lane count valid, both revisions return the same result,     *)
(* hold the same flags and drive the same reset-line values; their events  *)
(* differ only between the end of the reset pulse and the exit-sleep       *)
(* command of prepare(), where each has only writes and sleeps (and the    *)
(* richer one its warnings).                                               *)
(***************************************************************************)
ExitSleepIdx(ev) ==
  { j \in 1..Len(ev) : ev[j].k = "dcs" /\ ev[j].a = MIPI_DCS_EXIT_SLEEP_MODE }

Least(S) == CHOOSE j \in S : \A k \in S : j <= k

Greatest(S) == CHOOSE j \in S : \A k \in S : j >= k

\* the event after the wait that follows the last gpiod_set_value of the pulse
StepStart(ev) ==
  Greatest({ j \in 1..Least(ExitSleepIdx(ev)) : ev[j].k = "gpio" }) + 2

InterpreterStep(ev) ==
  IF ExitSleepIdx(ev) = {} THEN <<>>
  ELSE SubSeq(ev, StepStart(ev), Least(ExitSleepIdx(ev)) - 1)

OutsideStep(ev) ==
  IF ExitSleepIdx(ev) = {} THEN ev
  ELSE SubSeq(ev, 1, StepStart(ev) - 1) \o SubSeq(ev, Least(ExitSleepIdx(ev)), Len(ev))

GpioValues(ev) ==
  LET IsGpio(e) == e.k = "gpio"
      g == SelectSeq(ev, IsGpio)
  IN [j \in 1..Len(g) |-> g[j].a]

C27_SameLifecycle ==
  (last.op \in LifecycleOps /\ data.lanes \in {1, 2, 3, 4}) =>
    /\ last.ret = simple.ret
    /\ prepared = simple.prepared
    /\ enabled = simple.enabled
    /\ reset = simple.reset
    /\ GpioValues(last.ev) = GpioValues(simple.ev)
    /\ OutsideStep(last.ev) = OutsideStep(simple.ev)
    /\ \A j \in 1..Len(InterpreterStep(last.ev)) :
         InterpreterStep(last.ev)[j].k \in {"write", "sleep", "warn"}
    /\ \A j \in 1..Len(InterpreterStep(simple.ev)) :
         InterpreterStep(simple.ev)[j].k \in {"write", "sleep"}

\* a prepare() that both revisions ran with different replays
C27_Witness ==
  /\ last.op = "prepare"
  /\ data.lanes \in {1, 2, 3, 4}
  /\ last.ret = 0
  /\ prepared /\ simple.prepared
  /\ InterpreterStep(last.ev) # InterpreterStep(simple.ev)
  /\ Len(InterpreterStep(simple.ev)) > 2

PageSelectIdx(ev) == {j \in WriteIdx(ev) : ev[j].a = JD9365_CMD_PAGE}

\* the page selected when event j of ev happens: the payload of the last
\* page select before it (the preamble's comes before every other write)
PageAt(ev, j) ==
  LET before == {q \in PageSelectIdx(ev) : q < j}
  IN ev[CHOOSE q \in before : \A p \in before : p <= q].b

\* table writes of ev to register c with another value than v
OtherValueIdx(ev, c, v) ==
  {j \in WriteIdx(ev) : ev[j].i >= 1 /\ ev[j].a = c /\ ev[j].b # v}

\* C31: a prepare() of a shipped descriptor in which every transaction
\* succeeds selects the user page last (0xE0 <- 0x00), so that its
\* exit-sleep and display-on commands, which follow every write, are sent
\* with the user page selected; with the 4-lane descriptor it logs no
\* conflict, although its replay writes 0x36, 0x3A and 0x80 with other
\* values than the descriptor's while page 1 or 2 is selected
C31_ShippedTablesEndOnUserPage ==
  (PrepareRan /\ last.ret = 0) =>
    /\ data \in ShippedDescriptors
    /\ \A j \in DcsIdx(last.ev, {MIPI_DCS_EXIT_SLEEP_MODE, MIPI_DCS_SET_DISPLAY_ON}) :
         /\ \A q \in WriteIdx(last.ev) : q < j
         /\ PageAt(last.ev, j) = JD9365_PAGE_USER
    /\ Cardinality(DcsIdx(last.ev, {MIPI_DCS_EXIT_SLEEP_MODE})) = 1
    /\ Cardinality(DcsIdx(last.ev, {MIPI_DCS_SET_DISPLAY_ON})) = 1
    /\ data = LF101_8001280_AMA_4LANE_data =>
         /\ WarnIdx(last.ev) = {}
         /\ \E j \in OtherValueIdx(last.ev, MIPI_DCS_SET_ADDRESS_MODE, data.madctl_val) :
              PageAt(last.ev, j) \in {1, 2}
         /\ \E j \in OtherValueIdx(last.ev, MIPI_DCS_SET_PIXEL_FORMAT, data.colmod_val) :
              PageAt(last.ev, j) \in {1, 2}
         /\ \E j \in OtherValueIdx(last.ev, JD9365_CMD_DSI_INIT0, LaneCommand(data.lanes)) :
              PageAt(last.ev, j) \in {1, 2}

\* the whole 4-lane table has been replayed and the panel is prepared
C31_Witness ==
  /\ PrepareRan /\ last.ret = 0 /\ prepared
  /\ data = LF101_8001280_AMA_4LANE_data
  /\ Cardinality(WriteIdx(last.ev)) = 4 + Cardinality({q \in 1..data.init_cmds_count :
                                               IsWriteEntry(data.init_cmds[q])})
  /\ Cardinality(PageSelectIdx(last.ev)) > 4

====
